---- MODULE Spec2Model ----
(***************************************************************************)
(* A model of the Fake86 core: the 8259 interrupt controller (i8259.c),    *)
(* and the INT 13h disk services (disk.c).  Registers are integers of the  *)
(* width the C code gives them; every operator below is the translation   *)
(* of the C function of the same name.                                     *)
(***************************************************************************)
EXTENDS Integers, Sequences, FiniteSets, TLC

(***************************************************************************)
(* Bit arithmetic on uint8_t values.                                       *)
(***************************************************************************)
\* 1 << n, for n in 0..8
Pow2(n) == <<1, 2, 4, 8, 16, 32, 64, 128, 256>>[n + 1]

\* (x >> i) & 1
Bit(x, i) == (x \div Pow2(i)) % 2

\* x | (1 << i), as a uint8_t, for i in 0..7
OrBit(x, i) == IF Bit(x, i) = 1 THEN x ELSE x + Pow2(i)

\* x ^ (1 << i), as a uint8_t, for i in 0..7
XorBit(x, i) == IF Bit(x, i) = 1 THEN x - Pow2(i) ELSE x + Pow2(i)

\* bit i of a & b, in place
AndBit(a, b, i) == IF Bit(a, i) = 1 /\ Bit(b, i) = 1 THEN Pow2(i) ELSE 0

\* a & b on bytes
And8(a, b) ==
  AndBit(a, b, 0) + AndBit(a, b, 1) + AndBit(a, b, 2) + AndBit(a, b, 3)
  + AndBit(a, b, 4) + AndBit(a, b, 5) + AndBit(a, b, 6) + AndBit(a, b, 7)

\* (uint8_t) ~a
Not8(a) == 255 - a

(***************************************************************************)
(* Program state.                                                          *)
(***************************************************************************)
VARIABLES
  i8259,            \* struct structpic i8259: imr, irr, isr, icwstep, icw[5], readmode
  makeupticks,      \* extern uint32_t makeupticks
  keyboardwaitack,  \* extern uint8_t keyboardwaitack
  op,               \* the call made last: <<name, arguments...>>
  ret,              \* the value that call returned (0 for a void function)
  ifl,              \* the CPU's interrupt flag IF
  observed,         \* the vectors the CPU was delivered since the last EOI
  host,             \* the host thread inside doirq: [pc, irqnum, tmp]
  emu,              \* the emulation thread inside nextintr or out8259: [pc, call, i, tmp]
  irr0,             \* IRR when the two threads started
  disk,             \* static struct struct_drive disk[256]
  hdcount,          \* uint8_t hdcount
  bootdrive,        \* uint8_t bootdrive
  cs,               \* segregs[regcs]
  ip,               \* uint16_t ip
  files,            \* the host's image files: [size, data, pos] by name
  regs,             \* regs.byteregs: al, ah, bl, bh, cl, ch, dl, dh
  es,               \* segregs[reges]
  cf,               \* the carry flag
  RAM,              \* uint8_t RAM[0x100000], the bytes written so far
  lastdiskah,       \* static uint8_t lastdiskah[256]
  lastdiskcf,       \* static uint8_t lastdiskcf[256]
  ncalls,           \* INT 13h calls made so far
  lastret,          \* per DL, <<AH, CF>> returned by the last call with AH # 1
  cpu_regs,         \* cpu_regs: bx, bp, si, di, ds, ss, es, cs
  code,             \* the instruction bytes at CS:IP, code[0] the opcode
  segoverride,      \* the segment-override prefix seen before the instruction
  mod_rm,           \* struct cpu_mod_rm_t: mod, reg, rm, ea, num_bytes
  vga_ram,          \* static uint8_t _vga_ram[0x40000]: per offset, the bytes of planes 0..3
  vga_latch,        \* static uint32_t _vga_latch: its four bytes, plane 0 first
  vga_reg_data,     \* static uint8_t _vga_reg_data[256] (graphics controller)
  vga_seq_data,     \* static uint8_t _vga_seq_data[256] (sequencer)
  nvga,             \* accesses to the VGA window made so far
  vga_seq_addr,     \* static uint8_t _vga_seq_addr (port 3C4h)
  vga_reg_addr,     \* static uint8_t _vga_reg_addr (port 3CEh)
  dac_entry,        \* static uint32_t _dac_entry[256]
  dac_state,        \* static uint8_t _dac_state (port 3C7h)
  dac_mode_write,   \* static uint8_t _dac_mode_write: the DAC write address
  dac_mode_read,    \* static uint8_t _dac_mode_read: the DAC read address
  dac_pal_read,     \* static uint8_t _dac_pal_read: the component read next
  dac_pal_write,    \* static uint8_t _dac_pal_write: the component written next
  dac_mask_reg,     \* static uint8_t _dac_mask_reg (port 3C6h)
  ega_dac,          \* uint32_t _ega_dac[16]
  ega_reg,          \* uint8_t _ega_reg[32]
  flipflop_3c0,     \* uint8_t _3c0_flipflop: 0 = index mode, 1 = value mode
  addr_3c0,         \* uint8_t _3c0_addr
  portram,          \* uint8_t portram[]: the bytes of the ports without a register
  mda_status,       \* static uint8_t mda_status
  nports,           \* accesses to the video ports made so far
  portlog,          \* the last four of them, the latest last; under the PIC's
                    \* initialisation, the writes to ports 20h and 21h so far
  running,          \* extern uint8_t running
  speed,            \* uint32_t speed
  mainpc,           \* where the main thread is in main()
  emupc,            \* where the emulation thread is in EmuThread()
  audbuf,           \* the samples in the audio buffer
  audio_on,         \* the audio callback is running
  scrmodechange,    \* extern uint8_t scrmodechange
  dohardreset,      \* uint8_t dohardreset
  geometry,         \* the cyls, heads, sects of the struct_drive looked at
  geo_chs,          \* the <<cyl, head, sect>> converted last
  geo_lba           \* the lba computed from it

picVars == <<i8259, makeupticks, keyboardwaitack>>
obsVars == <<op, ret>>
cpuVars == <<ifl, observed>>
thrVars == <<host, emu, irr0>>
diskVars == <<disk, hdcount, bootdrive, cs, ip, files, regs, es, cf, RAM, lastdiskah, lastdiskcf,
              ncalls, lastret>>
decVars == <<cpu_regs, code, segoverride, mod_rm>>
vgaVars == <<vga_ram, vga_latch, vga_reg_data, vga_seq_data, nvga>>
portVars == <<vga_seq_addr, vga_reg_addr, dac_entry, dac_state, dac_mode_write, dac_mode_read,
              dac_pal_read, dac_pal_write, dac_mask_reg, ega_dac, ega_reg, flipflop_3c0,
              addr_3c0, portram, mda_status, nports, portlog>>
runVars == <<running, speed, mainpc, emupc, audbuf, audio_on, scrmodechange, dohardreset>>
geoVars == <<geometry, geo_chs, geo_lba>>
laterVars == <<portVars, runVars, geoVars>>
otherVars == <<decVars, vgaVars, laterVars>>
vars == <<picVars, obsVars, cpuVars, thrVars, diskVars, otherVars>>

(***************************************************************************)
(* Bounds and input sets.                                                  *)
(***************************************************************************)
\* cap on the timer's count of ticks to make up
MaxMakeupTicks == 1

\* cap on the vectors recorded between two EOIs
MaxObserved == 2

\* the request lines the devices of the model raise
IrqLines == {0, 1, 3, 5}

\* vector bases the guest programs as ICW2 (0xFC makes ICW2 + line pass 255)
VectorBases == {8, 252}

(***************************************************************************)
(* i8259.c                                                                 *)
(***************************************************************************)
\* init8259: memset(&i8259, 0, sizeof(i8259))
init8259 ==
  [imr |-> 0, irr |-> 0, isr |-> 0, icwstep |-> 0,
   icw |-> [k \in 0..4 |-> 0], readmode |-> 0]

\* uint8_t in8259(uint16_t portnum)
in8259(pic, portnum) ==
  IF portnum % 2 = 0
  THEN (IF pic.readmode = 0 THEN pic.irr ELSE pic.isr)
  ELSE pic.imr

\* the loop "for (i = 0; i < 8; i++) if ((x >> i) & 1)": the first i that passes
\* the test, 8 when the loop runs out
RECURSIVE ScanFrom(_, _)
ScanFrom(x, i) ==
  IF i = 8 THEN 8
  ELSE IF Bit(x, i) = 1 THEN i ELSE ScanFrom(x, i + 1)

\* an EOI that clears every in-service bit
Eoi_clearsAll(pic, mt) ==
  [pic |-> [pic EXCEPT !.isr = 0], makeupticks |-> mt, keyboardwaitack |-> 0]

\* the EOI branch of out8259 (value & 0x20)
Eoi(pic, mt) ==
  LET i == ScanFrom(pic.isr, 0) IN
  IF i = 8
  THEN [pic |-> pic, makeupticks |-> mt, keyboardwaitack |-> 0]
  ELSE IF i = 0 /\ mt > 0
  THEN [pic |-> [pic EXCEPT !.isr = XorBit(@, i), !.irr = OrBit(@, 0)],
        makeupticks |-> 0, keyboardwaitack |-> 0]
  ELSE [pic |-> [pic EXCEPT !.isr = XorBit(@, i)],
        makeupticks |-> mt, keyboardwaitack |-> 0]

\* out8259 that takes an ICW3 in single mode too
out8259_noSingle(pic, mt, kwa, portnum, value) ==
  IF portnum % 2 = 0
  THEN
    IF Bit(value, 4) = 1
    THEN
      [pic |-> [pic EXCEPT !.icwstep = 2, !.imr = 0, !.icw[1] = value],
       makeupticks |-> mt, keyboardwaitack |-> kwa]
    ELSE
      LET p1 == IF And8(value, 152) = 8 /\ Bit(value, 1) = 1
                THEN [pic EXCEPT !.readmode = And8(value, 2)]
                ELSE pic
      IN IF Bit(value, 5) = 1
         THEN Eoi(p1, mt)
         ELSE [pic |-> p1, makeupticks |-> mt, keyboardwaitack |-> kwa]
  ELSE
    IF pic.icwstep < 5
    THEN [pic |-> [pic EXCEPT !.icw[pic.icwstep] = value, !.icwstep = pic.icwstep + 1],
          makeupticks |-> mt, keyboardwaitack |-> kwa]
    ELSE [pic |-> [pic EXCEPT !.imr = value],
          makeupticks |-> mt, keyboardwaitack |-> kwa]

\* out8259 whose OCW3 selects by the RIS bit: bit 1 set stores bit 0, so that
\* 0x0A selects IRR and 0x0B selects ISR
out8259_readSelect(pic, mt, kwa, portnum, value) ==
  IF portnum % 2 = 0
  THEN
    IF Bit(value, 4) = 1
    THEN
      [pic |-> [pic EXCEPT !.icwstep = 2, !.imr = 0, !.icw[1] = value],
       makeupticks |-> mt, keyboardwaitack |-> kwa]
    ELSE
      LET p1 == IF And8(value, 152) = 8 /\ Bit(value, 1) = 1
                THEN [pic EXCEPT !.readmode = And8(value, 1)]
                ELSE pic
      IN IF Bit(value, 5) = 1
         THEN Eoi(p1, mt)
         ELSE [pic |-> p1, makeupticks |-> mt, keyboardwaitack |-> kwa]
  ELSE
    LET step == IF pic.icwstep = 3 /\ Bit(pic.icw[1], 1) = 1 THEN 4 ELSE pic.icwstep
    IN IF step < 5
       THEN [pic |-> [pic EXCEPT !.icw[step] = value, !.icwstep = step + 1],
             makeupticks |-> mt, keyboardwaitack |-> kwa]
       ELSE [pic |-> [pic EXCEPT !.icwstep = step, !.imr = value],
             makeupticks |-> mt, keyboardwaitack |-> kwa]

\* void out8259(uint16_t portnum, uint8_t value)
out8259(pic, mt, kwa, portnum, value) ==
  IF portnum % 2 = 0
  THEN
    IF Bit(value, 4) = 1
    THEN \* begin initialization sequence: icwstep = 1; imr = 0; icw[icwstep++] = value
      [pic |-> [pic EXCEPT !.icwstep = 2, !.imr = 0, !.icw[1] = value],
       makeupticks |-> mt, keyboardwaitack |-> kwa]
    ELSE
      LET p1 == IF And8(value, 152) = 8 /\ Bit(value, 1) = 1
                THEN [pic EXCEPT !.readmode = And8(value, 2)]
                ELSE pic
      IN IF Bit(value, 5) = 1
         THEN Eoi(p1, mt)
         ELSE [pic |-> p1, makeupticks |-> mt, keyboardwaitack |-> kwa]
  ELSE
    LET step == IF pic.icwstep = 3 /\ Bit(pic.icw[1], 1) = 1 THEN 4 ELSE pic.icwstep
    IN IF step < 5
       THEN [pic |-> [pic EXCEPT !.icw[step] = value, !.icwstep = step + 1],
             makeupticks |-> mt, keyboardwaitack |-> kwa]
       ELSE [pic |-> [pic EXCEPT !.icwstep = step, !.imr = value],
             makeupticks |-> mt, keyboardwaitack |-> kwa]

\* nextintr with the request cleared in ISR's favour but left pending in IRR
nextintr_keepsRequest(pic) ==
  LET tmpirr == And8(pic.irr, Not8(pic.imr))
      i == ScanFrom(tmpirr, 0)
  IN IF i = 8
     THEN [pic |-> pic, ret |-> 0]
     ELSE [pic |-> [pic EXCEPT !.isr = OrBit(@, i)], ret |-> (pic.icw[2] + i) % 256]

\* nextintr scanning IRR without the mask
nextintr_ignoresMask(pic) ==
  LET i == ScanFrom(pic.irr, 0)
  IN IF i = 8
     THEN [pic |-> pic, ret |-> 0]
     ELSE [pic |-> [pic EXCEPT !.irr = XorBit(@, i), !.isr = OrBit(@, i)],
           ret |-> (pic.icw[2] + i) % 256]

\* uint8_t nextintr()
nextintr(pic) ==
  LET tmpirr == And8(pic.irr, Not8(pic.imr))
      i == ScanFrom(tmpirr, 0)
  IN IF i = 8
     THEN [pic |-> pic, ret |-> 0]
     ELSE [pic |-> [pic EXCEPT !.irr = XorBit(@, i), !.isr = OrBit(@, i)],
           ret |-> (pic.icw[2] + i) % 256]

\* void doirq(uint8_t irqnum), irqnum in 0..7
doirq(pic, kwa, irqnum) ==
  [pic |-> [pic EXCEPT !.irr = OrBit(@, irqnum)],
   keyboardwaitack |-> IF irqnum = 1 THEN 1 ELSE kwa]

(***************************************************************************)
(* The controller as the guest has programmed it: init8259, then ICW1 =    *)
(* 0x13 (single, ICW4 needed), ICW2 = the vector base, ICW4 = 0x09.        *)
(***************************************************************************)
Programmed(base) ==
  LET s1 == out8259(init8259, 0, 0, 32, 19).pic
      s2 == out8259(s1, 0, 0, 33, base).pic
      s3 == out8259(s2, 0, 0, 33, 9).pic
  IN s3

\* bytes written to the command port 0x20: EOI, OCW3 read-IRR, OCW3 read-ISR,
\* OCW3 with the EOI bit
CommandBytes == {32, 10, 11, 43}

\* bytes written to the data port 0x21 (interrupt masks)
MaskBytes == {0, 2, 10}

HostIdle == [pc |-> "idle", irqnum |-> 0, tmp |-> 0]
EmuIdle == [pc |-> "idle", call |-> "none", i |-> 0, tmp |-> 0]

\* the parts of the state a specification does not use
CpuAtRest == ifl = 0 /\ observed = <<>>
ThreadsAtRest == host = HostIdle /\ emu = EmuIdle /\ irr0 = 0
DiskAtRest ==
  /\ disk = <<>> /\ hdcount = 0 /\ files = <<>>
  /\ bootdrive = 0 /\ cs = 0 /\ ip = 0
  /\ regs = <<>> /\ es = 0 /\ cf = 0 /\ RAM = <<>>
  /\ lastdiskah = <<>> /\ lastdiskcf = <<>>
  /\ ncalls = 0 /\ lastret = <<>>
DecAtRest ==
  /\ cpu_regs = <<>> /\ code = <<>> /\ segoverride = "none" /\ mod_rm = <<>>
VgaAtRest ==
  /\ vga_ram = <<>> /\ vga_latch = <<0, 0, 0, 0>>
  /\ vga_reg_data = <<>> /\ vga_seq_data = <<>> /\ nvga = 0
PortsAtRest ==
  /\ vga_seq_addr = 0 /\ vga_reg_addr = 0
  /\ dac_entry = <<>> /\ dac_state = 0 /\ dac_mode_write = 0 /\ dac_mode_read = 0
  /\ dac_pal_read = 0 /\ dac_pal_write = 0 /\ dac_mask_reg = 0
  /\ ega_dac = <<>> /\ ega_reg = <<>> /\ flipflop_3c0 = 0 /\ addr_3c0 = 0
  /\ portram = <<>> /\ mda_status = 0 /\ nports = 0 /\ portlog = <<>>
RunAtRest ==
  /\ running = 0 /\ speed = 0 /\ mainpc = "none" /\ emupc = "none"
  /\ audbuf = 0 /\ audio_on = FALSE /\ scrmodechange = 0 /\ dohardreset = 0
GeoAtRest == geometry = <<>> /\ geo_chs = <<>> /\ geo_lba = 0
LaterAtRest == PortsAtRest /\ RunAtRest /\ GeoAtRest
OthersAtRest == DecAtRest /\ VgaAtRest /\ LaterAtRest
PicAtRest ==
  /\ i8259 = init8259 /\ makeupticks = 0 /\ keyboardwaitack = 0

InitPIC ==
  /\ \E base \in VectorBases : i8259 = Programmed(base)
  /\ makeupticks = 0
  /\ keyboardwaitack = 0
  /\ op = <<"init8259">>
  /\ ret = 0
  /\ CpuAtRest
  /\ ThreadsAtRest
  /\ DiskAtRest
  /\ OthersAtRest

\* a device raises a request line
DoIrq ==
  \E n \in IrqLines :
    \E r \in {doirq(i8259, keyboardwaitack, n)} :
    /\ i8259' = r.pic
    /\ keyboardwaitack' = r.keyboardwaitack
    /\ op' = <<"doirq", n>>
    /\ ret' = 0
    /\ UNCHANGED <<makeupticks, cpuVars, thrVars, diskVars, otherVars>>

\* the guest writes byte v to port p (0x20 or 0x21)
Out(p, v) ==
  \E r \in {out8259(i8259, makeupticks, keyboardwaitack, p, v)} :
  /\ i8259' = r.pic
  /\ makeupticks' = r.makeupticks
  /\ keyboardwaitack' = r.keyboardwaitack
  /\ op' = <<"out8259", p, v>>
  /\ ret' = 0

\* the guest writes a command byte to port 0x20
OutCommand ==
  \E v \in CommandBytes : Out(32, v) /\ UNCHANGED <<cpuVars, thrVars, diskVars, otherVars>>

\* the guest writes a byte to port 0x21
OutData ==
  \E v \in MaskBytes : Out(33, v) /\ UNCHANGED <<cpuVars, thrVars, diskVars, otherVars>>

\* the guest reads port 0x20 or 0x21
InPort ==
  \E p \in {32, 33} :
    /\ ret' = in8259(i8259, p)
    /\ op' = <<"in8259", p>>
    /\ UNCHANGED <<picVars, cpuVars, thrVars, diskVars, otherVars>>

\* the CPU asks for the next vector
NextIntr ==
  \E r \in {nextintr(i8259)} :
  /\ i8259' = r.pic
  /\ ret' = r.ret
  /\ op' = <<"nextintr">>
  /\ UNCHANGED <<makeupticks, keyboardwaitack, cpuVars, thrVars, diskVars, otherVars>>

\* the timer falls behind and counts a tick to make up
TimerLag ==
  /\ makeupticks < MaxMakeupTicks
  /\ makeupticks' = makeupticks + 1
  /\ op' = <<"timing">>
  /\ ret' = 0
  /\ UNCHANGED <<i8259, keyboardwaitack, cpuVars, thrVars, diskVars, otherVars>>

NextPIC == DoIrq \/ OutCommand \/ OutData \/ InPort \/ NextIntr \/ TimerLag

SpecPIC == InitPIC /\ [][NextPIC]_vars

(***************************************************************************)
(* Properties of the controller.                                           *)
(***************************************************************************)
\* the request lines that are pending and not masked
Eligible(pic) == {i \in 0..7 : Bit(pic.irr, i) = 1 /\ Bit(pic.imr, i) = 0}

\* the lowest-numbered line of a non-empty set
Lowest(S) == CHOOSE i \in S : \A j \in S : i <= j

\* the lines whose bit is set in a register
Lines(x) == {i \in 0..7 : Bit(x, i) = 1}

\* the vector of line n
Vector(pic, n) == (pic.icw[2] + n) % 256

\* C1: a nextintr call made with an eligible request returns (ICW[2] + i) mod 256
\* for the lowest-numbered eligible line i, clears bit i of IRR, sets bit i of
\* ISR, and leaves the other bits of IRR and ISR and all of IMR as they were.
C1_NextVector ==
  [][ (op'[1] = "nextintr" /\ Eligible(i8259) # {}) =>
        LET i == Lowest(Eligible(i8259)) IN
        /\ ret' = (i8259.icw[2] + i) % 256
        /\ Lines(i8259'.irr) = Lines(i8259.irr) \ {i}
        /\ Lines(i8259'.isr) = Lines(i8259.isr) \cup {i}
        /\ i8259'.imr = i8259.imr ]_vars

\* C1 witness: the spec's example, IMR = 0 and IRR = {3,5}: the call has returned
\* ICW2+3 and left ISR = {3}, IRR = {5}.
C1_Witness ==
  /\ op = <<"nextintr">>
  /\ i8259.imr = 0
  /\ i8259.irr = 32
  /\ i8259.isr = 8
  /\ ret = (i8259.icw[2] + 3) % 256

\* what C3 says of a masked line n in every step: the step neither sets bit n of
\* ISR nor clears bit n of IRR, and a nextintr call that finds an eligible
\* request does not return the vector of n
MaskedHeld(n) ==
  Bit(i8259.imr, n) = 1 =>
    /\ Bit(i8259'.isr, n) = 1 => Bit(i8259.isr, n) = 1
    /\ Bit(i8259.irr, n) = 1 => Bit(i8259'.irr, n) = 1
    /\ (op'[1] = "nextintr" /\ Eligible(i8259) # {}) => ret' # Vector(i8259, n)

\* the controller after the guest has written 0 to port 0x21
Unmasked(pic) == out8259(pic, makeupticks, keyboardwaitack, 33, 0).pic

\* C3 as stated: a masked line n is never delivered, and for every line n that is
\* pending and masked, once IMR is written to 0 the next nextintr call returns
\* ICW2 + n.
C3_Original ==
  [][ \A n \in 0..7 :
        /\ MaskedHeld(n)
        /\ (Bit(i8259.imr, n) = 1 /\ Bit(i8259.irr, n) = 1) =>
             nextintr(Unmasked(i8259)).ret = Vector(i8259, n) ]_vars

\* C3 as amended: a masked line n is never delivered, and for every line n that is
\* pending and masked, once IMR is written to 0 the next nextintr call returns
\* ICW2 + n provided no lower-numbered request is pending.
C3_MaskedLine ==
  [][ \A n \in 0..7 :
        /\ MaskedHeld(n)
        /\ (/\ Bit(i8259.imr, n) = 1
            /\ Bit(i8259.irr, n) = 1
            /\ \A k \in 0..(n - 1) : Bit(i8259.irr, k) = 0) =>
             LET r == nextintr(Unmasked(i8259)) IN
             /\ r.ret = Vector(i8259, n)
             /\ Bit(r.pic.isr, n) = 1
             /\ Bit(r.pic.irr, n) = 0 ]_vars

\* C3 witness: IMR = 0x02 and IRR = 0x02, nextintr was called and the request is
\* still pending, nothing in service.
C3_Witness ==
  /\ op = <<"nextintr">>
  /\ i8259.imr = 2
  /\ i8259.irr = 2
  /\ i8259.isr = 0

\* a write to port 0x20 with bit 5 set and bit 4 clear
IsEoiWrite(o) == o[1] = "out8259" /\ o[2] = 32 /\ Bit(o[3], 5) = 1 /\ Bit(o[3], 4) = 0

InitDispatch ==
  /\ i8259 = Programmed(8)
  /\ makeupticks = 0
  /\ keyboardwaitack = 0
  /\ op = <<"init8259">>
  /\ ret = 0
  /\ ifl = 1
  /\ observed = <<>>
  /\ ThreadsAtRest
  /\ DiskAtRest
  /\ OthersAtRest

\* the dispatcher takes an interrupt
Dispatch ==
  /\ ifl = 1
  /\ And8(i8259.irr, Not8(i8259.imr)) # 0
  /\ Len(observed) < MaxObserved
  /\ \E r \in {nextintr(i8259)} :
     /\ i8259' = r.pic
     /\ ret' = r.ret
     /\ observed' = Append(observed, r.ret)
  /\ ifl' = 0
  /\ op' = <<"dispatch">>
  /\ UNCHANGED <<makeupticks, keyboardwaitack, thrVars, diskVars, otherVars>>

\* the guest sets IF (STI, or IRET or POPF of flags with IF set)
GuestSti ==
  /\ ifl = 0
  /\ ifl' = 1
  /\ op' = <<"sti">>
  /\ ret' = 0
  /\ UNCHANGED <<picVars, observed, thrVars, diskVars, otherVars>>

\* the guest writes the EOI command
GuestEoi ==
  /\ Out(32, 32)
  /\ observed' = <<>>
  /\ UNCHANGED <<ifl, thrVars, diskVars, otherVars>>

NextDispatch == DoIrq \/ Dispatch \/ GuestSti \/ GuestEoi

SpecPICDispatch == InitDispatch /\ [][NextDispatch]_vars

\* the line a vector belongs to
LineOf(v) == (v - i8259.icw[2]) % 256

\* C2: between the delivery of IRQ n and the next EOI the CPU is delivered no
\* vector for line n or for a lower-priority (higher-numbered) line: of the
\* vectors delivered since the last EOI, each later one has a strictly lower
\* line number than every earlier one.
C2_Original ==
  \A j, k \in 1..Len(observed) :
    j < k => LineOf(observed[k]) < LineOf(observed[j])

(***************************************************************************)
(* doirq on the host thread against nextintr or an EOI write on the        *)
(* emulation thread.  i8259.irr is a plain uint8_t and both threads update *)
(* it with |= and ^=, which are a load and a store: the two may interleave *)
(* with the other thread's in any order.                                   *)
(***************************************************************************)
\* the register whose set bits are the lines of S
RegOf(S) ==
  LET b(i) == IF i \in S THEN Pow2(i) ELSE 0
  IN b(0) + b(1) + b(2) + b(3) + b(4) + b(5) + b(6) + b(7)

InitThreads ==
  /\ \E pend \in SUBSET IrqLines, srv \in {0, 1}, mt \in 0..MaxMakeupTicks :
       /\ i8259 = [Programmed(8) EXCEPT !.irr = RegOf(pend), !.isr = srv]
       /\ irr0 = RegOf(pend)
       /\ makeupticks = mt
  /\ keyboardwaitack = 0
  /\ op = <<"init8259">>
  /\ ret = 0
  /\ CpuAtRest
  /\ DiskAtRest
  /\ OthersAtRest
  /\ \E n \in IrqLines : host = [pc |-> "load", irqnum |-> n, tmp |-> 0]
  /\ \E c \in {"nextintr", "eoi"} : emu = [pc |-> "start", call |-> c, i |-> 0, tmp |-> 0]

\* doirq: i8259.irr |= (1 << irqnum), the load
HostLoad ==
  /\ host.pc = "load"
  /\ host' = [host EXCEPT !.pc = "store", !.tmp = i8259.irr]
  /\ UNCHANGED <<picVars, obsVars, cpuVars, emu, irr0, diskVars, otherVars>>

\* doirq: i8259.irr |= (1 << irqnum), the store; then keyboardwaitack
HostStore ==
  /\ host.pc = "store"
  /\ i8259' = [i8259 EXCEPT !.irr = OrBit(host.tmp, host.irqnum)]
  /\ keyboardwaitack' = IF host.irqnum = 1 THEN 1 ELSE keyboardwaitack
  /\ host' = [host EXCEPT !.pc = "done"]
  /\ UNCHANGED <<makeupticks, obsVars, cpuVars, emu, irr0, diskVars, otherVars>>

\* nextintr: tmpirr = i8259.irr & ~i8259.imr and the scan for its lowest bit
EmuScan ==
  /\ emu.pc = "start" /\ emu.call = "nextintr"
  /\ LET i == ScanFrom(And8(i8259.irr, Not8(i8259.imr)), 0) IN
     IF i = 8
     THEN emu' = [emu EXCEPT !.pc = "done", !.i = 8] /\ ret' = 0
     ELSE emu' = [emu EXCEPT !.pc = "xor_load", !.i = i] /\ ret' = ret
  /\ UNCHANGED <<picVars, op, cpuVars, host, irr0, diskVars, otherVars>>

\* nextintr: i8259.irr ^= (1 << i), the load
EmuXorLoad ==
  /\ emu.pc = "xor_load"
  /\ emu' = [emu EXCEPT !.pc = "xor_store", !.tmp = i8259.irr]
  /\ UNCHANGED <<picVars, obsVars, cpuVars, host, irr0, diskVars, otherVars>>

\* nextintr: i8259.irr ^= (1 << i), the store; then isr |= (1 << i) and the return
EmuXorStore ==
  /\ emu.pc = "xor_store"
  /\ i8259' = [i8259 EXCEPT !.irr = XorBit(emu.tmp, emu.i), !.isr = OrBit(@, emu.i)]
  /\ ret' = (i8259.icw[2] + emu.i) % 256
  /\ emu' = [emu EXCEPT !.pc = "done"]
  /\ UNCHANGED <<makeupticks, keyboardwaitack, op, cpuVars, host, irr0, diskVars, otherVars>>

\* out8259(0x20, 0x20) up to the test of makeupticks
EmuEoi ==
  /\ emu.pc = "start" /\ emu.call = "eoi"
  /\ keyboardwaitack' = 0
  /\ LET i == ScanFrom(i8259.isr, 0) IN
     IF i = 8
     THEN /\ emu' = [emu EXCEPT !.pc = "done", !.i = 8]
          /\ UNCHANGED <<i8259, makeupticks>>
     ELSE /\ i8259' = [i8259 EXCEPT !.isr = XorBit(@, i)]
          /\ IF i = 0 /\ makeupticks > 0
             THEN makeupticks' = 0 /\ emu' = [emu EXCEPT !.pc = "or_load", !.i = 0]
             ELSE makeupticks' = makeupticks /\ emu' = [emu EXCEPT !.pc = "done", !.i = i]
  /\ UNCHANGED <<obsVars, cpuVars, host, irr0, diskVars, otherVars>>

\* out8259: i8259.irr |= 1, the load
EmuOrLoad ==
  /\ emu.pc = "or_load"
  /\ emu' = [emu EXCEPT !.pc = "or_store", !.tmp = i8259.irr]
  /\ UNCHANGED <<picVars, obsVars, cpuVars, host, irr0, diskVars, otherVars>>

\* out8259: i8259.irr |= 1, the store
EmuOrStore ==
  /\ emu.pc = "or_store"
  /\ i8259' = [i8259 EXCEPT !.irr = OrBit(emu.tmp, 0)]
  /\ emu' = [emu EXCEPT !.pc = "done"]
  /\ UNCHANGED <<makeupticks, keyboardwaitack, obsVars, cpuVars, host, irr0, diskVars, otherVars>>

NextThreads ==
  \/ HostLoad \/ HostStore
  \/ EmuScan \/ EmuXorLoad \/ EmuXorStore
  \/ EmuEoi \/ EmuOrLoad \/ EmuOrStore

SpecPICThreads == InitThreads /\ [][NextThreads]_vars

\* the line the emulation thread's nextintr call delivered, if any
Delivered == IF emu.call = "nextintr" /\ emu.i < 8 THEN {emu.i} ELSE {}

\* C5: doirq(n) is safe against a concurrent nextintr or EOI: when both calls
\* have returned, line n is pending in IRR or was delivered, every line that was
\* pending before is pending or was delivered, and a delivered line is pending
\* again only if it is the line doirq raised.
C5_Original ==
  (host.pc = "done" /\ emu.pc = "done") =>
    /\ host.irqnum \in Lines(i8259.irr) \cup Delivered
    /\ Lines(irr0) \subseteq Lines(i8259.irr) \cup Delivered
    /\ \A k \in Delivered : k \in Lines(i8259.irr) => k = host.irqnum

(***************************************************************************)
(* disk.c                                                                  *)
(***************************************************************************)
\* bytes in a sector
SectorSize == 512

\* the guest's address space, 2^20 bytes
MemSize == 1048576

\* first address of the ROMs (ROM BASIC at 0xF6000, the BIOS above it)
RomBase == 1007616

\* the VGA plane window 0xA0000..0xAFFFF
VgaBase == 655360
VgaEnd == 720895

\* the byte the guest's memory holds at address a before any disk transfer
Ram0(a) == (7 * a + 11) % 256

\* the image files on the host: a 360 KiB floppy image and a fixed-disk image of
\* two cylinders of 16 heads and 63 sectors
HostFiles == {"fd360.img", "hd.img"}
HostFileSize(name) == IF name = "fd360.img" THEN 368640 ELSE 1032192

\* byte k of an image file as found on the host (the floppy's first sector
\* holds k mod 256)
Image0(name, k) ==
  IF name = "fd360.img"
  THEN (k + 3 * (k \div SectorSize)) % 256
  ELSE (k + 5 * (k \div SectorSize) + 1) % 256

\* no limit on what fwrite can store
NoLimit == 2147483647

\* readonly[addr] != 0: the ROM BASIC and BIOS images loaded before the CPU is
\* reset (the option ROMs at 0xC0000 and 0xD0000 lie outside every buffer used here)
ReadOnly(a) == a >= RomBase

\* byte a of RAM
Peek(ram, a) == IF a \in DOMAIN ram THEN ram[a] ELSE Ram0(a)

\* uint8_t read86(uint32_t addr32)
read86(ram, addr32) == Peek(ram, addr32 % MemSize)

\* void write86(uint32_t addr32, uint8_t value): dropped on a read-only byte,
\* passed to the video adapter in the plane window, stored in RAM otherwise
write86(ram, addr32, value) ==
  LET a == addr32 % MemSize IN
  IF ReadOnly(a) \/ (a >= VgaBase /\ a <= VgaEnd)
  THEN ram
  ELSE [x \in DOMAIN ram \cup {a} |-> IF x = a THEN value ELSE ram[x]]

\* byte off of an open file
FileByte(f, off) == IF off \in DOMAIN f.data THEN f.data[off] ELSE Image0(f.name, off)

\* a struct_drive of the zero-initialised table
NoDrive ==
  [handle |-> "NULL", diskfile |-> "NULL", filesize |-> 0,
   cyls |-> 0, sects |-> 0, heads |-> 0, inserted |-> 0]

\* fopen(filename, "r+b") followed by the size probe: the file at position 0
Opened(name) == [name |-> name, size |-> HostFileSize(name), data |-> <<>>, pos |-> 0]

\* the geometry disk_insert_image gives a floppy image of a size
FloppyGeometry(filesize) ==
  IF filesize <= 163840 THEN [cyls |-> 40, sects |-> 8, heads |-> 1]
  ELSE IF filesize <= 368640 THEN [cyls |-> 40, sects |-> 9, heads |-> 2]
  ELSE IF filesize <= 737280 THEN [cyls |-> 80, sects |-> 9, heads |-> 2]
  ELSE IF filesize <= 1228800 THEN [cyls |-> 80, sects |-> 15, heads |-> 2]
  ELSE [cyls |-> 80, sects |-> 18, heads |-> 2]

\* static uint8_t disk_insert_image(uint8_t drivenum, char *filename)
disk_insert_image(dk, hdc, fs, drivenum, filename) ==
  IF filename \notin HostFiles
  THEN [disk |-> [dk EXCEPT ![drivenum].inserted = 0, ![drivenum].diskfile = "NULL"],
        hdcount |-> hdc, files |-> fs, ret |-> 1]
  ELSE
    LET size == HostFileSize(filename)
        g == IF drivenum >= 128
             THEN [cyls |-> size \div (63 * 16 * 512), sects |-> 63, heads |-> 16]
             ELSE FloppyGeometry(size)
    IN [disk |-> [dk EXCEPT ![drivenum] =
                    [handle |-> dk[drivenum].handle, diskfile |-> filename,
                     filesize |-> size, cyls |-> g.cyls, sects |-> g.sects,
                     heads |-> g.heads, inserted |-> 1]],
        hdcount |-> IF drivenum >= 128 THEN (hdc + 1) % 256 ELSE hdc,
        files |-> [n \in DOMAIN fs \cup {filename} |->
                     IF n = filename THEN Opened(filename) ELSE fs[n]],
        ret |-> 0]

\* static bool _disk_seek(struct struct_drive* d, uint32_t offset): the file
\* positioned at offset, and the result
disk_seek(d, f, offset) ==
  IF d.diskfile # "NULL"
  THEN [ok |-> TRUE, file |-> [f EXCEPT !.pos = offset]]
  ELSE [ok |-> FALSE, file |-> f]

\* what fread(dst, 1, 512, d->diskfile) returns: the bytes left in the file, 512 at most
Fread(f) ==
  IF f.size - f.pos >= SectorSize THEN SectorSize
  ELSE IF f.size > f.pos THEN f.size - f.pos ELSE 0

\* a block copy of the sector into RAM
StoreSector_blockCopy(ram, memdest, f, pos) ==
  LET tgt == {(memdest + k) % MemSize : k \in 0..(SectorSize - 1)}
  IN [a \in DOMAIN ram \cup tgt |->
        IF a \in tgt THEN FileByte(f, pos + ((a - memdest) % MemSize)) ELSE ram[a]]

\* the 512 calls write86(memdest++, sectorbuffer[sectoffset]) of one sector read
\* at file position pos; they go to 512 different addresses
StoreSector(ram, memdest, f, pos) ==
  LET tgt == {(memdest + k) % MemSize : k \in 0..(SectorSize - 1)}
      wr == {a \in tgt : write86(<<>>, a, 0) # <<>>}
  IN [a \in DOMAIN ram \cup wr |->
        IF a \in wr THEN FileByte(f, pos + ((a - memdest) % MemSize)) ELSE ram[a]]

\* the sector loop of disk_read from cursect on: the file, RAM and cursect it ends with
RECURSIVE ReadLoop(_, _, _, _, _, _)
ReadLoop(d, f, ram, memdest, cursect, sectcount) ==
  IF cursect >= sectcount
  THEN [file |-> f, ram |-> ram, cursect |-> cursect]
  ELSE IF d.diskfile = "NULL" \/ Fread(f) < SectorSize
  THEN [file |-> [f EXCEPT !.pos = @ + Fread(f)], ram |-> ram, cursect |-> cursect]
  ELSE ReadLoop(d, [f EXCEPT !.pos = @ + SectorSize],
                StoreSector(ram, memdest, f, f.pos),
                memdest + SectorSize, cursect + 1, sectcount)

\* heads and sectors per track taken for each other
Lba_swapped(d, cyl, sect, head) == (cyl * d.sects + head) * d.heads + sect - 1

\* a zero-based sector index
Lba_zeroBased(d, cyl, sect, head) == (cyl * d.heads + head) * d.sects + sect

\* (cyl * heads + head) * sects + sect - 1; with cyl < 1024, head < 256 and the
\* geometries disk_insert_image produces (heads <= 16, sects <= 63) neither
\* this nor lba * 512 reaches 2^31, so the uint32_t arithmetic never wraps
Lba(d, cyl, sect, head) == (cyl * d.heads + head) * d.sects + sect - 1

\* void disk_read(drivenum, dstseg, dstoff, cyl, sect, head, sectcount) on the
\* machine m = [regs, cf, ram, files]
disk_read(dk, m, drivenum, dstseg, dstoff, cyl, sect, head, sectcount) ==
  LET d == dk[drivenum]
      fileoffset == Lba(d, cyl, sect, head) * SectorSize
  IN IF sect = 0 \/ d.inserted = 0 THEN m
     ELSE IF fileoffset > d.filesize THEN m
     ELSE
       LET sk == disk_seek(d, m.files[d.diskfile], fileoffset)
           r == ReadLoop(d, sk.file, m.ram, dstseg * 16 + dstoff, 0, sectcount)
       IN [m EXCEPT !.files[d.diskfile] = r.file,
                    !.ram = r.ram,
                    !.regs.al = r.cursect % 256,
                    !.cf = 0,
                    !.regs.ah = 0]

\* fwrite(src, 1, 512, d->diskfile) with room for `room` more bytes on the host:
\* the file after it and the count it returns
Fwrite(f, ram, memsrc, room) ==
  LET n == IF room < SectorSize THEN room ELSE SectorSize
      at == f.pos..(f.pos + n - 1)
  IN [count |-> n,
      file |-> [f EXCEPT
                  !.data = [o \in DOMAIN f.data \cup at |->
                              IF o \in at THEN read86(ram, memsrc + (o - f.pos))
                              ELSE f.data[o]],
                  !.pos = f.pos + n,
                  !.size = IF f.pos + n > @ THEN f.pos + n ELSE @]]

\* static bool _disk_write(d, src, size): the value returned after fwrite stored
\* count bytes (d->handle is NULL for an image file)
WriteResult(d, count) ==
  IF d.diskfile # "NULL" /\ count < SectorSize THEN TRUE
  ELSE IF d.handle # "NULL" THEN TRUE
  ELSE FALSE

\* the sector loop of disk_write from cursect on: the file it ends with, and
\* whether the loop ran to its end (FALSE: it returned from disk_write)
RECURSIVE WriteLoop(_, _, _, _, _, _, _)
WriteLoop(d, f, ram, memdest, cursect, sectcount, room) ==
  IF cursect >= sectcount
  THEN [file |-> f, finished |-> TRUE]
  ELSE
    LET w == Fwrite(f, ram, memdest, room) IN
    IF ~WriteResult(d, w.count)
    THEN [file |-> w.file, finished |-> FALSE]
    ELSE WriteLoop(d, w.file, ram, memdest + SectorSize, cursect + 1, sectcount,
                   room - w.count)

\* void disk_write(drivenum, dstseg, dstoff, cyl, sect, head, sectcount)
disk_write(dk, m, drivenum, dstseg, dstoff, cyl, sect, head, sectcount, room) ==
  LET d == dk[drivenum]
      fileoffset == Lba(d, cyl, sect, head) * SectorSize
  IN IF sect = 0 \/ d.inserted = 0 THEN m
     ELSE IF fileoffset > d.filesize THEN m
     ELSE
       LET sk == disk_seek(d, m.files[d.diskfile], fileoffset) IN
       IF ~sk.ok THEN m
       ELSE
         LET r == WriteLoop(d, sk.file, m.ram, dstseg * 16 + dstoff, 0, sectcount, room)
             m1 == [m EXCEPT !.files[d.diskfile] = r.file]
         IN IF ~r.finished THEN m1
            ELSE [m1 EXCEPT !.regs.al = sectcount % 256, !.cf = 0, !.regs.ah = 0]

\* the status recorded without the copy at 0x474
RecordStatus_noMirror(m) ==
  [m EXCEPT !.lastdiskah[m.regs.dl] = m.regs.ah,
            !.lastdiskcf[m.regs.dl] = m.cf]

\* the last lines of disk_int_handler: the status recorded under regs.dl, and
\* mirrored at 0x474 for a fixed disk
RecordStatus(m) ==
  [m EXCEPT !.lastdiskah[m.regs.dl] = m.regs.ah,
            !.lastdiskcf[m.regs.dl] = m.cf,
            !.ram = IF m.regs.dl >= 128 THEN write86(m.ram, 1140, m.regs.ah) ELSE m.ram]

\* case 8 of disk_int_handler: get drive parameters
DriveParameters(dk, hdc, m) ==
  LET d == dk[m.regs.dl] IN
  IF d.inserted # 0
  THEN [m EXCEPT !.cf = 0,
                 !.regs.ah = 0,
                 !.regs.ch = (d.cyls - 1) % 256,
                 !.regs.cl = ((d.sects % 64) + (d.cyls \div 256) * 64) % 256,
                 !.regs.dh = (d.heads - 1) % 256,
                 !.regs.bl = IF m.regs.dl < 128 THEN 4 ELSE @,
                 !.regs.dl = IF m.regs.dl < 128 THEN 2 ELSE hdc]
  ELSE [m EXCEPT !.cf = 1, !.regs.ah = 170]

\* void disk_int_handler(int intnum) on the machine m = [regs, es, cf, ram,
\* files, lastdiskah, lastdiskcf]; room is what the host can still store
disk_int_handler(dk, hdc, m, room) ==
  LET dl == m.regs.dl
      cyl == m.regs.ch + (m.regs.cl \div 64) * 256
      sect == m.regs.cl % 64
      bx == m.regs.bl + 256 * m.regs.bh
  IN
  IF m.regs.ah = 1
  THEN [m EXCEPT !.regs.ah = m.lastdiskah[dl], !.cf = m.lastdiskcf[dl]]
  ELSE RecordStatus(
    IF m.regs.ah = 0 THEN [m EXCEPT !.regs.ah = 0, !.cf = 0]
    ELSE IF m.regs.ah = 2
    THEN IF dk[dl].inserted # 0
         THEN [disk_read(dk, m, dl, m.es, bx, cyl, sect, m.regs.dh, m.regs.al)
                 EXCEPT !.cf = 0, !.regs.ah = 0]
         ELSE [m EXCEPT !.cf = 1, !.regs.ah = 1]
    ELSE IF m.regs.ah = 3
    THEN IF dk[dl].inserted # 0
         THEN [disk_write(dk, m, dl, m.es, bx, cyl, sect, m.regs.dh, m.regs.al, room)
                 EXCEPT !.cf = 0, !.regs.ah = 0]
         ELSE [m EXCEPT !.cf = 1, !.regs.ah = 1]
    ELSE IF m.regs.ah \in {4, 5} THEN [m EXCEPT !.cf = 0, !.regs.ah = 0]
    ELSE IF m.regs.ah = 8 THEN DriveParameters(dk, hdc, m)
    ELSE [m EXCEPT !.cf = 1])

\* disk_bootstrap loading the sector after the boot sector
disk_bootstrap_secondSector(dk, m, bd) ==
  IF bd < 255
  THEN [m |-> disk_read(dk, [m EXCEPT !.regs.dl = bd], bd, 1984, 0, 0, 2, 0, 1),
        cs |-> 0, ip |-> 31744]
  ELSE [m |-> m, cs |-> 62976, ip |-> 0]

\* void disk_bootstrap(int intnum) on the machine m = [regs, cf, ram, files]:
\* the machine after it, and the CS:IP it sets
disk_bootstrap(dk, m, bd) ==
  IF bd < 255
  THEN [m |-> disk_read(dk, [m EXCEPT !.regs.dl = bd], bd, 1984, 0, 0, 1, 0, 1),
        cs |-> 0, ip |-> 31744]
  ELSE [m |-> m, cs |-> 62976, ip |-> 0]

(***************************************************************************)
(* INT 13h calls made by the guest                                         *)
(***************************************************************************)
\* calls per behaviour of the status specification
MaxStatusCalls == 3

\* calls per behaviour of the transfer specification
MaxXferCalls == 2

\* the drive table after disk_insert_image(0, "fd360.img") and
\* disk_insert_image(0x80, "hd.img") on the zero-initialised table
Inserted ==
  LET a == disk_insert_image([n \in 0..255 |-> NoDrive], 0, <<>>, 0, "fd360.img")
  IN disk_insert_image(a.disk, a.hdcount, a.files, 128, "hd.img")

\* the registers the guest loads before INT 13h
Regs(ah, al, c, h, s, dl, bx) ==
  [ah |-> ah, al |-> al, ch |-> c % 256, cl |-> s + (c \div 256) * 64,
   dh |-> h, dl |-> dl, bl |-> bx % 256, bh |-> bx \div 256]

\* the machine disk_int_handler runs on, with the registers of a request
Machine(req) ==
  [regs |-> Regs(req.ah, req.al, req.chs[1], req.chs[2], req.chs[3], req.dl, req.bx),
   es |-> req.es, cf |-> cf, ram |-> RAM, files |-> files,
   lastdiskah |-> lastdiskah, lastdiskcf |-> lastdiskcf]

\* one INT 13h: the handler runs to its end on the CPU thread
Int13(req, room) ==
  /\ \E r \in {disk_int_handler(disk, hdcount, Machine(req), room)} :
       /\ regs' = r.regs
       /\ cf' = r.cf
       /\ RAM' = r.ram
       /\ files' = r.files
       /\ lastdiskah' = r.lastdiskah
       /\ lastdiskcf' = r.lastdiskcf
       /\ lastret' = IF req.ah # 1
                     THEN [lastret EXCEPT ![req.dl] = <<r.regs.ah, r.cf>>]
                     ELSE lastret
  /\ es' = req.es
  /\ ncalls' = ncalls + 1
  /\ op' = <<"int13", req, room>>
  /\ ret' = 0
  /\ UNCHANGED <<disk, hdcount, bootdrive, cs, ip, picVars, cpuVars, thrVars, otherVars>>

\* drive numbers given as the boot drive: the floppy, an empty drive, and 255
\* for none
BootDrives == {0, 1, 255}

\* the CS:IP the CPU is reset to
ResetCS == 65535
ResetIP == 0

InitDiskBoot(bd) ==
  /\ disk = Inserted.disk
  /\ hdcount = Inserted.hdcount
  /\ bootdrive = bd
  /\ cs = ResetCS
  /\ ip = ResetIP
  /\ files = Inserted.files
  /\ regs = Regs(0, 0, 0, 0, 0, 0, 0)
  /\ es = 0
  /\ cf = 0
  /\ RAM = <<>>
  /\ lastdiskah = [n \in 0..255 |-> 0]
  /\ lastdiskcf = [n \in 0..255 |-> 0]
  /\ ncalls = 0
  /\ lastret = [n \in 0..255 |-> <<>>]
  /\ op = <<"reset">>
  /\ ret = 0
  /\ PicAtRest
  /\ CpuAtRest
  /\ ThreadsAtRest
  /\ OthersAtRest

\* the machine booting from the floppy (bootdrive = 0, its initial value), and
\* from any of the boot drives
InitDisk == InitDiskBoot(0)
InitXfer == \E bd \in BootDrives : InitDiskBoot(bd)

\* C/H/S of the first sector, of sector index 0, of the last sector of the
\* floppy image, of the sector just past its end (at file
\* offset = filesize) and of the one after it (at file offset > filesize)
FirstSector == <<0, 0, 1>>
SectorZero == <<0, 0, 0>>
LastSector == <<39, 1, 9>>
PastEnd == <<40, 0, 1>>
BeyondEnd == <<40, 0, 2>>

\* ES of a buffer in plain RAM, and of one whose second half is ROM
RamSeg == 8192
RomEdgeSeg == 62960

\* the status calls: the function in AH and the drive in DL; drives 0 and 0x80
\* hold an image, drives 1 and 0x81 do not
StatusRequests ==
  [ah : {0, 1, 2, 8, 21}, al : {1}, chs : {FirstSector}, dl : {0, 1, 128, 129},
   es : {RamSeg}, bx : {0}]

Int13Status ==
  /\ ncalls < MaxStatusCalls
  /\ \E req \in StatusRequests : Int13(req, NoLimit)

SpecDiskStatus == InitDisk /\ [][Int13Status]_vars

\* the transfers: reads and writes of one or two sectors
XferRequests ==
  {r \in [ah : {2, 3}, al : {1, 2},
          chs : {FirstSector, SectorZero, LastSector, PastEnd, BeyondEnd},
          dl : {0, 128}, es : {RamSeg, RomEdgeSeg}, bx : {0}] :
     /\ r.dl = 128 => r.chs \in {FirstSector, SectorZero} /\ r.es = RamSeg
     /\ r.es = RomEdgeSeg => r.ah = 2 /\ r.chs = FirstSector
     /\ r.ah = 3 => r.chs \notin {PastEnd, BeyondEnd}}

\* what the host can still store when a write arrives
Rooms == {NoLimit, 256}

Int13Xfer ==
  /\ ncalls < MaxXferCalls
  /\ \E req \in XferRequests, room \in Rooms :
       /\ room # NoLimit => req.ah = 3
       /\ Int13(req, room)

\* INT 19h: the BIOS (or the guest) asks for the bootstrap
Bootstrap ==
  /\ ncalls < MaxXferCalls
  /\ \E r \in {disk_bootstrap(disk, [regs |-> regs, es |-> es, cf |-> cf, ram |-> RAM,
                                     files |-> files], bootdrive)} :
       /\ regs' = r.m.regs
       /\ cf' = r.m.cf
       /\ RAM' = r.m.ram
       /\ files' = r.m.files
       /\ cs' = r.cs
       /\ ip' = r.ip
  /\ ncalls' = ncalls + 1
  /\ op' = <<"bootstrap">>
  /\ ret' = 0
  /\ UNCHANGED <<disk, hdcount, bootdrive, es, lastdiskah, lastdiskcf, lastret,
                 picVars, cpuVars, thrVars, otherVars>>

NextXfer == Int13Xfer \/ Bootstrap

SpecDiskXfer == InitXfer /\ [][NextXfer]_vars

(***************************************************************************)
(* Properties of the INT 13h service                                       *)
(***************************************************************************)
\* this step is an INT 13h call
Called == op'[1] = "int13" /\ ncalls' = ncalls + 1

\* two memories hold the same bytes
MemEq(r1, r2) == \A a \in DOMAIN r1 \cup DOMAIN r2 : Peek(r1, a) = Peek(r2, a)

\* two memories hold the same bytes except perhaps at address x
MemEqExcept(r1, r2, x) ==
  \A a \in (DOMAIN r1 \cup DOMAIN r2) \ {x} : Peek(r1, a) = Peek(r2, a)

\* the previous call was AH=2 on drive dl, which holds no image
AfterFailedRead(dl) ==
  /\ op[1] = "int13" /\ op[2].ah = 2 /\ op[2].dl = dl
  /\ disk[dl].inserted = 0

\* C6 as stated: AH=2 on a drive that is not inserted returns CF=1, AH=1 and
\* changes neither guest memory nor any backing file; an AH=1 call with the same
\* DL that follows returns AH=1, CF=1 and changes neither the backing files nor
\* the recorded status.
C6_Original ==
  [][Called =>
       LET q == op'[2] IN
       /\ (q.ah = 2 /\ disk[q.dl].inserted = 0) =>
            /\ cf' = 1 /\ regs'.ah = 1
            /\ MemEq(RAM', RAM)
            /\ files' = files
       /\ (q.ah = 1 /\ AfterFailedRead(q.dl)) =>
            /\ regs'.ah = 1 /\ cf' = 1
            /\ files' = files
            /\ lastdiskah' = lastdiskah /\ lastdiskcf' = lastdiskcf]_vars

\* C6 (amended): AH=2 on a drive that is not inserted returns CF=1, AH=1,
\* changes no backing file and changes no byte of guest memory other than
\* 0x474, which receives AH=1 when DL >= 0x80 (and nothing changes when
\* DL < 0x80); an AH=1 call with the same DL that follows returns AH=1, CF=1 and
\* changes neither guest memory, the backing files nor the recorded status.
C6_StatusReplay ==
  [][Called =>
       LET q == op'[2] IN
       /\ (q.ah = 2 /\ disk[q.dl].inserted = 0) =>
            /\ cf' = 1 /\ regs'.ah = 1
            /\ MemEqExcept(RAM', RAM, 1140)
            /\ Peek(RAM', 1140) = IF q.dl >= 128 THEN 1 ELSE Peek(RAM, 1140)
            /\ files' = files
       /\ (q.ah = 1 /\ AfterFailedRead(q.dl)) =>
            /\ regs'.ah = 1 /\ cf' = 1
            /\ MemEq(RAM', RAM)
            /\ files' = files
            /\ lastdiskah' = lastdiskah /\ lastdiskcf' = lastdiskcf]_vars

\* AH=2 on the empty drive 0x81 has been followed by AH=1 on the same drive,
\* which returned the recorded failure; 0x474 holds it too
C6_Witness ==
  /\ ncalls = 2
  /\ op[1] = "int13" /\ op[2].ah = 1 /\ op[2].dl = 129
  /\ disk[129].inserted = 0
  /\ lastret[129] = <<1, 1>>
  /\ regs.ah = 1 /\ cf = 1
  /\ Peek(RAM, 1140) = 1
  /\ Peek(RAM, 1140) # Ram0(1140)

\* C7 as stated: an AH=1 call with DL=d returns the AH and CF that the most
\* recent call with DL=d and AH # 1 returned (lastret records, per caller's DL,
\* what that call returned).
C7_Original ==
  (op[1] = "int13" /\ op[2].ah = 1 /\ lastret[op[2].dl] # <<>>) =>
    <<regs.ah, cf>> = lastret[op[2].dl]

\* the sectors of a request are transferred at this file offset
Offset(q) == Lba(disk[q.dl], q.chs[1], q.chs[3], q.chs[2]) * SectorSize

\* the guest address of byte k of a request's buffer
Buffer(q, k) == (q.es * 16 + q.bx + k) % MemSize

\* C/H/S addresses a sector of the drive
InRange(d, chs) ==
  /\ chs[1] < d.cyls /\ chs[2] < d.heads
  /\ chs[3] >= 1 /\ chs[3] <= d.sects

\* the backing files hold the same bytes
StoreEq(f1, f2) ==
  /\ DOMAIN f1 = DOMAIN f2
  /\ \A n \in DOMAIN f1 :
       /\ f1[n].size = f2[n].size
       /\ \A o \in DOMAIN f1[n].data \cup DOMAIN f2[n].data :
            FileByte(f1[n], o) = FileByte(f2[n], o)

\* C8 as stated: AH=2 or AH=3 with sector index 0 on an inserted drive returns
\* CF=1 with a non-zero AH and transfers nothing.
C8_Original ==
  [][Called =>
       LET q == op'[2] IN
       (q.ah \in {2, 3} /\ Regs(q.ah, q.al, q.chs[1], q.chs[2], q.chs[3], q.dl, q.bx).cl % 64 = 0
          /\ disk[q.dl].inserted # 0) =>
         /\ cf' = 1 /\ regs'.ah # 0
         /\ StoreEq(files', files)
         /\ MemEqExcept(RAM', RAM, 1140)]_vars

Available(q) ==
  LET left == (disk[q.dl].filesize - Offset(q)) \div SectorSize
  IN IF left < q.al THEN left ELSE q.al

C10_Original ==
  [][Called =>
       LET q == op'[2]
           d == disk[q.dl]
       IN (q.ah = 3 /\ q.al >= 1 /\ d.inserted # 0 /\ d.diskfile # "NULL"
             /\ InRange(d, q.chs) /\ op'[3] = NoLimit) =>
            /\ cf' = 0 /\ regs'.ah = 0 /\ regs'.al = q.al
            /\ \A k \in 0..(q.al * SectorSize - 1) :
                 FileByte(files'[d.diskfile], Offset(q) + k) = read86(RAM, Buffer(q, k))]_vars

\* C11 as stated: when the host stores only part of a sector during AH=3 (room
\* for 256 of the 512 bytes), the call returns CF=1 and the file receives nothing
\* beyond the bytes of that short write.
C11_Original ==
  [][Called =>
       LET q == op'[2]
           d == disk[q.dl]
       IN (q.ah = 3 /\ d.inserted # 0 /\ d.diskfile # "NULL"
             /\ InRange(d, q.chs) /\ op'[3] < SectorSize) =>
            /\ cf' = 1
            /\ \A o \in DOMAIN files'[d.diskfile].data :
                 o >= Offset(q) + op'[3] =>
                   FileByte(files'[d.diskfile], o) = FileByte(files[d.diskfile], o)]_vars

\* this step is the bootstrap
Booted == op'[1] = "bootstrap" /\ ncalls' = ncalls + 1

\* a bus write to address a is stored in RAM
PlainRam(a) == ~ReadOnly(a) /\ ~(a >= VgaBase /\ a <= VgaEnd)

\* C12: the sector bytes read by AH=2 or by the bootstrap reach RAM through
\* the bus byte write, byte k of the transfer at address start+k: no read-only
\* byte of RAM changes, and each writable byte of the transfer holds its sector
\* byte afterwards.
C12_BusWrite ==
  [][/\ (Called /\ op'[2].ah = 2 /\ disk[op'[2].dl].inserted # 0 /\ op'[2].chs[3] >= 1) =>
          LET q == op'[2]
              d == disk[q.dl]
              n == IF Offset(q) > d.filesize THEN 0 ELSE Available(q)
          IN /\ \A a \in DOMAIN RAM \cup DOMAIN RAM' :
                  ReadOnly(a) => Peek(RAM', a) = Peek(RAM, a)
             /\ \A k \in 0..(n * SectorSize - 1) :
                  ReadOnly(Buffer(q, k)) => Peek(RAM', Buffer(q, k)) = Peek(RAM, Buffer(q, k))
             /\ \A k \in 0..(n * SectorSize - 1) :
                  PlainRam(Buffer(q, k)) =>
                    Peek(RAM', Buffer(q, k)) = FileByte(files[d.diskfile], Offset(q) + k)
     /\ (Booted /\ bootdrive < 255 /\ disk[bootdrive].inserted # 0) =>
          /\ \A a \in DOMAIN RAM \cup DOMAIN RAM' :
               ReadOnly(a) => Peek(RAM', a) = Peek(RAM, a)
          /\ \A k \in 0..(SectorSize - 1) :
               Peek(RAM', 31744 + k) = FileByte(files[disk[bootdrive].diskfile], k)]_vars

\* a sector of the floppy has been read to a buffer whose first half is RAM and
\* whose second half is ROM: the RAM half holds the sector, the ROM half does not
C12_Witness ==
  /\ op[1] = "int13" /\ op[2].ah = 2 /\ op[2].es = RomEdgeSeg /\ op[2].al = 1
  /\ \A k \in 0..255 :
       /\ ~ReadOnly(RomEdgeSeg * 16 + k)
       /\ Peek(RAM, RomEdgeSeg * 16 + k) = FileByte(files["fd360.img"], k)
  /\ \A k \in 256..511 :
       /\ ReadOnly(RomEdgeSeg * 16 + k)
       /\ Peek(RAM, RomEdgeSeg * 16 + k) = Ram0(RomEdgeSeg * 16 + k)
  /\ \E k \in 256..511 :
       Peek(RAM, RomEdgeSeg * 16 + k) # FileByte(files["fd360.img"], k)

(***************************************************************************)
(* cpu_mod_rm.h                                                            *)
(***************************************************************************)
\* GET_CODE(uint8_t, OFFSET), GET_CODE(uint16_t, OFFSET) on a little-endian
\* host, and GET_CODE(int8_t, OFFSET)
Code8(c, off) == c[off]
Code16(c, off) == c[off] + 256 * c[off + 1]
CodeInt8(c, off) == IF c[off] >= 128 THEN c[off] - 256 ELSE c[off]

\* a base table that reads BX for [BP]
BaseAddr_bpAsBx(r, rm) ==
  <<r.bx + r.si, r.bx + r.di, r.bp + r.si, r.bp + r.di, r.si, r.di, r.bx, r.bx>>[rm + 1]

\* the inner switch (m->rm) of _decode_mod_rm: the sum of the base registers,
\* an int32_t
BaseAddr(r, rm) ==
  CASE rm = 0 -> r.bx + r.si
    [] rm = 1 -> r.bx + r.di
    [] rm = 2 -> r.bp + r.si
    [] rm = 3 -> r.bp + r.di
    [] rm = 4 -> r.si
    [] rm = 5 -> r.di
    [] rm = 6 -> r.bp
    [] rm = 7 -> r.bx

\* a byte count that forgets the disp16 of (mod 0, rm 6)
NumBytes_noDirect(mod, rm) ==
  CASE mod = 0 -> 1
    [] mod = 1 -> 2
    [] mod = 2 -> 3
    [] mod = 3 -> 1

\* m->num_bytes as the two switches of _decode_mod_rm set it
NumBytes(mod, rm) ==
  CASE mod = 0 -> IF rm = 6 THEN 3 ELSE 1
    [] mod = 1 -> 2
    [] mod = 2 -> 3
    [] mod = 3 -> 1

\* static inline void _decode_mod_rm(const uint8_t *code, struct cpu_mod_rm_t *m)
\* with the registers r; m->ea is a uint32_t, held here as the integer the sum
\* gives (a negative value v stands for 2^32 + v)
decode_mod_rm(c, r, m) ==
  LET modRegRM == Code8(c, 1)
      mod == (modRegRM \div 64) % 4
      reg == (modRegRM \div 8) % 8
      rm == modRegRM % 8
      addr == IF mod = 0 /\ rm = 6 THEN Code16(c, 2) ELSE BaseAddr(r, rm)
      seg == IF rm = 2 \/ rm = 3 \/ (rm = 6 /\ mod # 0) THEN r.ss * 16 ELSE r.ds * 16
      m1 == [m EXCEPT !.mod = mod, !.reg = reg, !.rm = rm, !.num_bytes = NumBytes(mod, rm)]
  IN CASE mod = 0 -> [m1 EXCEPT !.ea = seg + addr]
       [] mod = 1 -> [m1 EXCEPT !.ea = seg + addr + CodeInt8(c, 2)]
       [] mod = 2 -> [m1 EXCEPT !.ea = seg + addr + Code16(c, 2)]
       [] mod = 3 -> m1

\* register files the decoder is run on
RegFiles ==
  { [bx |-> 0, bp |-> 0, si |-> 0, di |-> 0, ds |-> 0, ss |-> 0, es |-> 0, cs |-> 0],
    [bx |-> 65535, bp |-> 32768, si |-> 1, di |-> 2,
     ds |-> 0, ss |-> 8192, es |-> 12288, cs |-> 61440],
    [bx |-> 4660, bp |-> 16384, si |-> 16, di |-> 256,
     ds |-> 4096, ss |-> 8192, es |-> 12288, cs |-> 61440],
    [bx |-> 65535, bp |-> 65535, si |-> 65535, di |-> 65535,
     ds |-> 65535, ss |-> 65535, es |-> 4096, cs |-> 61440] }

\* the two bytes that follow the ModR-M byte
DispBytes == {<<0, 0>>, <<255, 0>>, <<52, 18>>, <<255, 255>>, <<128, 127>>}

\* the opcode of the instruction (MOV r/m16, r16)
Opcode == 137

\* what the caller finds in m->ea before the call
StaleEa == 74565

InitDecode ==
  /\ cpu_regs \in RegFiles
  /\ \E b \in 0..255, d \in DispBytes :
       code = [i \in 0..3 |-> <<Opcode, b, d[1], d[2]>>[i + 1]]
  /\ segoverride = "none"
  /\ mod_rm = [mod |-> 0, reg |-> 0, rm |-> 0, ea |-> StaleEa, num_bytes |-> 0]
  /\ op = <<"fetch">>
  /\ ret = 0
  /\ PicAtRest
  /\ CpuAtRest
  /\ ThreadsAtRest
  /\ DiskAtRest
  /\ VgaAtRest
  /\ LaterAtRest

\* a segment-override prefix (26h, 2Eh, 36h, 3Eh) precedes the instruction
Prefix ==
  /\ op = <<"fetch">>
  /\ \E seg \in {"es", "cs", "ss", "ds"} : segoverride' = seg
  /\ op' = <<"prefix">>
  /\ UNCHANGED <<cpu_regs, code, mod_rm, ret, picVars, cpuVars, thrVars, diskVars, vgaVars,
                 laterVars>>

\* the instruction's ModR-M byte is decoded
Decode ==
  /\ op[1] \in {"fetch", "prefix"}
  /\ mod_rm' = decode_mod_rm(code, cpu_regs, mod_rm)
  /\ op' = <<"decode">>
  /\ UNCHANGED <<cpu_regs, code, segoverride, ret, picVars, cpuVars, thrVars, diskVars,
                 vgaVars, laterVars>>

NextDecode == Prefix \/ Decode

SpecModRM == InitDecode /\ [][NextDecode]_vars

(***************************************************************************)
(* Properties of the ModR-M decoder                                        *)
(***************************************************************************)
\* the decoder has run on the instruction
Decoded == op = <<"decode">>

\* the addressing table: base registers and default segment by rm
TableBase(r, rm) ==
  <<r.bx + r.si, r.bx + r.di, r.bp + r.si, r.bp + r.di, r.si, r.di, r.bp, r.bx>>[rm + 1]
TableSeg(r, rm) == <<r.ds, r.ds, r.ss, r.ss, r.ds, r.ds, r.ss, r.ds>>[rm + 1]

\* bits hi..lo of the ModR-M byte, read bit by bit
Field(b, hi, lo) ==
  LET RECURSIVE F(_)
      F(i) == IF i < lo THEN 0 ELSE Bit(b, i) * Pow2(i - lo) + F(i - 1)
  IN F(hi)

\* the displacement the encoding carries, sign-extended for mod 1
Displacement(c, mod, rm) ==
  CASE mod = 0 -> 0
    [] mod = 1 -> (IF Bit(c[2], 7) = 1 THEN c[2] - 256 ELSE c[2])
    [] mod = 2 -> c[2] + 256 * c[3]
    [] mod = 3 -> 0

\* the offset's base and the segment the effective address is formed with when
\* no prefix overrides it: the table, but disp16 with DS for (mod 0, rm 6)
EaBase(c, r, mod, rm) ==
  IF mod = 0 /\ rm = 6 THEN c[2] + 256 * c[3] ELSE TableBase(r, rm)
EaSeg(r, mod, rm) == IF mod = 0 /\ rm = 6 THEN r.ds ELSE TableSeg(r, rm)

\* C13: for every ModR-M byte with mod # 3 the decoder yields
\* ea = (default segment << 4) + base + displacement, base and segment from the
\* table (disp16 with DS for mod 0, rm 6), displacement none, disp8
\* sign-extended, or disp16.
C13_EffectiveAddress ==
  Decoded =>
    LET b == code[1]
        mod == Field(b, 7, 6)
        rm == Field(b, 2, 0)
    IN mod # 3 =>
         mod_rm.ea = EaSeg(cpu_regs, mod, rm) * 16 + EaBase(code, cpu_regs, mod, rm)
                       + Displacement(code, mod, rm)

\* [BP+SI] with disp8 = -128 has been decoded with SS = 0x2000, BP = 0x8000, SI = 1
C13_Witness ==
  /\ Decoded
  /\ code[1] = 66 /\ code[2] = 128
  /\ cpu_regs.ss = 8192 /\ cpu_regs.bp = 32768 /\ cpu_regs.si = 1
  /\ mod_rm.mod = 1 /\ mod_rm.rm = 2
  /\ mod_rm.ea = 131072 + 32769 - 128

\* C14: num_bytes is 1 for mod 0 with rm # 6, 3 for mod 0 with rm = 6, 2 for
\* mod 1, 3 for mod 2 and 1 for mod 3, so always 1, 2 or 3; mod, reg and rm are
\* bits 7..6, 5..3 and 2..0 of the byte.
C14_NumBytes ==
  Decoded =>
    LET b == code[1] IN
    /\ mod_rm.mod = Field(b, 7, 6)
    /\ mod_rm.reg = Field(b, 5, 3)
    /\ mod_rm.rm = Field(b, 2, 0)
    /\ mod_rm.num_bytes \in {1, 2, 3}
    /\ mod_rm.num_bytes =
         <<IF mod_rm.rm = 6 THEN 3 ELSE 1, 2, 3, 1>>[mod_rm.mod + 1]
    /\ (mod_rm.mod = 0 /\ mod_rm.num_bytes = 3) => mod_rm.rm = 6

\* the direct-address encoding (mod 0, rm 6, reg 5) has been decoded
C14_Witness ==
  /\ Decoded
  /\ code[1] = 46
  /\ mod_rm.mod = 0 /\ mod_rm.reg = 5 /\ mod_rm.rm = 6
  /\ mod_rm.num_bytes = 3

\* the value of a segment register by name
SegValue(r, seg) ==
  CASE seg = "es" -> r.es
    [] seg = "cs" -> r.cs
    [] seg = "ss" -> r.ss
    [] seg = "ds" -> r.ds

\* C15 as stated: with a segment-override prefix seen before the instruction,
\* the effective address is formed with the override segment, for every
\* encoding with mod # 3.
C15_Original ==
  (Decoded /\ segoverride # "none") =>
    LET b == code[1]
        mod == Field(b, 7, 6)
        rm == Field(b, 2, 0)
    IN mod # 3 =>
         mod_rm.ea = SegValue(cpu_regs, segoverride) * 16 + EaBase(code, cpu_regs, mod, rm)
                       + Displacement(code, mod, rm)

\* C16 as stated: the offset is the base plus the displacement modulo 2^16, and
\* the address is segment*16 + offset modulo 2^20 (the bus sees ea modulo 2^20).
C16_Original ==
  (Decoded /\ segoverride = "none") =>
    LET b == code[1]
        mod == Field(b, 7, 6)
        rm == Field(b, 2, 0)
        offset == (EaBase(code, cpu_regs, mod, rm) + Displacement(code, mod, rm)) % 65536
    IN mod # 3 =>
         mod_rm.ea % MemSize = (EaSeg(cpu_regs, mod, rm) * 16 + offset) % MemSize

(***************************************************************************)
(* video_neo.c: the EGA/VGA plane engine                                   *)
(***************************************************************************)
\* a | b and a ^ b on bytes
Or8(a, b) == a + b - And8(a, b)
Xor8(a, b) == a + b - 2 * And8(a, b)

\* a uint32_t of four plane bytes is held as <<plane 0, .., plane 3>>; the
\* bitwise operators act on each byte
LaneAnd(a, b) == [p \in 1..4 |-> And8(a[p], b[p])]
LaneOr(a, b) == [p \in 1..4 |-> Or8(a[p], b[p])]
LaneXor(a, b) == [p \in 1..4 |-> Xor8(a[p], b[p])]
LaneNot(a) == [p \in 1..4 |-> Not8(a[p])]

\* static inline uint8_t _ror8(uint8_t in, uint8_t rot)
ror8(in, rot) ==
  LET r == rot % 8
  IN ((in \div Pow2(r)) + ((in * 256) \div Pow2(r))) % 256

\* a mask that repeats the byte in every plane
make_mask_repeat(bits) == <<bits, bits, bits, bits>>

\* static uint32_t _make_mask(const uint8_t bits): lower four bits to byte mask
make_mask(bits) ==
  <<IF Bit(bits, 0) = 1 THEN 255 ELSE 0,
    IF Bit(bits, 1) = 1 THEN 255 ELSE 0,
    IF Bit(bits, 2) = 1 THEN 255 ELSE 0,
    IF Bit(bits, 3) = 1 THEN 255 ELSE 0>>

\* static uint32_t _broadcast(const uint8_t val); the shifts of a byte >= 0x80
\* by 24 leave the int range, and every build yields the byte in the top lane
broadcast(val) == <<val, val, val, val>>

\* the register accessors
vga_plane_write_enable(sq) == sq[2] % 16
vga_write_mode(gr) == gr[5] % 4
vga_read_mode(gr) == (gr[5] \div 8) % 2
vga_read_map_select(gr) == gr[4] % 4
vga_sr_enable(gr) == gr[1] % 16
vga_sr_value(gr) == gr[0] % 16
vga_logic_op(gr) == (gr[3] \div 8) % 4
vga_rot_count(gr) == gr[3] % 8
vga_bit_mask(gr) == gr[8]

\* the machine the engine runs on: v = [ram, latch, gr, sq]

\* static uint8_t _neo_vga_read_0(uint32_t addr)
neo_vga_read_0(v) == v.latch[vga_read_map_select(v.gr) + 1]

\* a read that leaves the latch as it was
FillLatch_stale(v, addr) == v

\* the latch fill of neo_mem_read_A0000
FillLatch(v, addr) == [v EXCEPT !.latch = [p \in 1..4 |-> v.ram[addr][p]]]

\* _neo_vga_write_planes that stores every lane, enabled or not
neo_vga_write_planes_all(v, addr, lanes) ==
  [v EXCEPT !.ram[addr] = [p \in 1..4 |-> lanes[p]]]

\* static void _neo_vga_write_planes(uint32_t addr, const uint32_t lanes)
neo_vga_write_planes(v, addr, lanes) ==
  [v EXCEPT !.ram[addr] =
     [p \in 1..4 |-> IF Bit(vga_plane_write_enable(v.sq), p - 1) = 1
                     THEN lanes[p] ELSE v.ram[addr][p]]]

\* static void _neo_vga_write_alu(uint32_t addr, uint32_t input)
neo_vga_write_alu(v, addr, input) ==
  LET lop == vga_logic_op(v.gr)
      tmp1 == CASE lop = 0 -> input
                [] lop = 1 -> LaneAnd(input, v.latch)
                [] lop = 2 -> LaneOr(input, v.latch)
                [] lop = 3 -> LaneXor(input, v.latch)
      bm_mux == broadcast(vga_bit_mask(v.gr))
      tmp2 == LaneOr(LaneAnd(tmp1, bm_mux), LaneAnd(v.latch, LaneNot(bm_mux)))
  IN neo_vga_write_planes(v, addr, tmp2)

\* uint32_t srvl = _vga_sr_value() ? 0 : ~0u
SetResetLanes(gr) == IF vga_sr_value(gr) # 0 THEN broadcast(0) ELSE broadcast(255)

\* static void _neo_vga_write_0(uint32_t addr, uint8_t value)
neo_vga_write_0(v, addr, value) ==
  LET path == broadcast(ror8(value, vga_rot_count(v.gr)))
      srvl == SetResetLanes(v.gr)
      sr_mask == LaneNot(make_mask(vga_sr_enable(v.gr)))
      tmp0 == LaneOr(LaneAnd(path, sr_mask), LaneAnd(srvl, LaneNot(sr_mask)))
  IN neo_vga_write_alu(v, addr, tmp0)

\* write mode 1 storing the CPU's byte
neo_vga_write_1_data(v, addr, value) == neo_vga_write_planes(v, addr, broadcast(value))

\* static void _neo_vga_write_1(uint32_t addr, uint8_t value)
neo_vga_write_1(v, addr, value) == neo_vga_write_planes(v, addr, v.latch)

\* static void _neo_vga_write_2(uint32_t addr, uint8_t value)
neo_vga_write_2(v, addr, value) == neo_vga_write_alu(v, addr, make_mask(value))

\* static void _neo_vga_write_3(uint32_t addr, uint8_t value)
neo_vga_write_3(v, addr, value) ==
  LET tmp0 == And8(vga_bit_mask(v.gr), ror8(value, vga_rot_count(v.gr)))
      srvl == SetResetLanes(v.gr)
      switcher == make_mask(tmp0)
      tmp1 == LaneOr(LaneAnd(srvl, switcher), LaneAnd(v.latch, LaneNot(switcher)))
  IN neo_vga_write_planes(v, addr, tmp1)

\* the first address of the window
WindowBase == 655360

\* void neo_mem_write_A0000(uint32_t addr, uint8_t value)
neo_mem_write_A0000(v, addr, value) ==
  LET off == addr - WindowBase
      wm == vga_write_mode(v.gr)
  IN CASE wm = 0 -> neo_vga_write_0(v, off, value)
       [] wm = 1 -> neo_vga_write_1(v, off, value)
       [] wm = 2 -> neo_vga_write_2(v, off, value)
       [] wm = 3 -> neo_vga_write_3(v, off, value)

\* accesses per behaviour of the plane engine
MaxVgaOps == 2

\* the window addresses accessed: the first and the last byte of the window
WindowAddrs == {WindowBase, WindowBase + 65535}

\* the bytes the CPU writes
WriteValues == {15, 1, 165, 240}

\* the bytes found in the planes at an offset before the first access
Vram0(off, p) == (27 + 53 * p + 7 * off) % 256

\* register settings <<enable set/reset, set/reset, bit mask, map mask, rotate
\* count, read mode>> as the guest has programmed them through 3CEh/3CFh and
\* 3C4h/3C5h
VgaSettings ==
  { <<15, 1, 255, 15, 0, 0>>,
    <<15, 0, 255, 15, 0, 0>>,
    <<15, 10, 60, 15, 3, 0>>,
    <<0, 5, 255, 15, 0, 0>>,
    <<6, 3, 15, 5, 1, 0>>,
    <<0, 0, 255, 5, 7, 1>>,
    <<15, 15, 165, 10, 2, 0>> }

\* Color Compare (GR02) and Color Don't Care (GR07) as the guest has programmed
\* them: compare against colour 5 on planes 0, 1 and 3
ColorCompare0 == 5
DontCare0 == 11

\* what a build returns where control runs off the end of _neo_vga_read_1
GarbageBytes == {0, 255}

InitVgaFrom(settings, lops) ==
  /\ vga_ram = [a \in {x - WindowBase : x \in WindowAddrs} |->
                  [p \in 1..4 |-> Vram0(a, p - 1)]]
  /\ vga_latch = <<0, 0, 0, 0>>
  /\ \E st \in settings, wm \in 0..3, lop \in lops :
       /\ vga_reg_data = [i \in 0..8 |->
            CASE i = 0 -> st[2]
              [] i = 1 -> st[1]
              [] i = 2 -> ColorCompare0
              [] i = 3 -> st[5] + 8 * lop
              [] i = 5 -> wm + 8 * st[6]
              [] i = 7 -> DontCare0
              [] i = 8 -> st[3]
              [] OTHER -> 0]
       /\ vga_seq_data = [i \in 0..4 |-> IF i = 2 THEN st[4] ELSE 0]
  /\ nvga = 0
  /\ op = <<"neo_init">>
  /\ ret = 0
  /\ PicAtRest
  /\ CpuAtRest
  /\ ThreadsAtRest
  /\ DiskAtRest
  /\ DecAtRest
  /\ LaterAtRest

InitVga == InitVgaFrom(VgaSettings, 0..3)

\* the engine's state as one record
Vga == [ram |-> vga_ram, latch |-> vga_latch, gr |-> vga_reg_data, sq |-> vga_seq_data]

\* the engine can be called: it has not run into UNREACHABLE()
VgaRunning == op[1] # "unreachable" /\ nvga < MaxVgaOps

\* uint8_t neo_mem_read_A0000(uint32_t addr): the latch is filled, then read
\* mode 0 returns the selected plane's byte; _neo_vga_read_1 is UNREACHABLE(),
\* which stops the program or lets the function return whatever the build
\* leaves in the register
MemRead ==
  /\ VgaRunning
  /\ \E addr \in WindowAddrs :
       \E r \in {FillLatch(Vga, addr - WindowBase)} :
         /\ vga_latch' = r.latch
         /\ \/ /\ vga_read_mode(vga_reg_data) = 0
               /\ ret' = neo_vga_read_0(r)
               /\ op' = <<"read", addr>>
            \/ /\ vga_read_mode(vga_reg_data) = 1
               /\ ret' = 0
               /\ op' = <<"unreachable", addr>>
            \/ /\ vga_read_mode(vga_reg_data) = 1
               /\ ret' \in GarbageBytes
               /\ op' = <<"read", addr>>
  /\ nvga' = nvga + 1
  /\ UNCHANGED <<vga_ram, vga_reg_data, vga_seq_data,
                 picVars, cpuVars, thrVars, diskVars, decVars, laterVars>>

\* void neo_mem_write_A0000(uint32_t addr, uint8_t value)
MemWrite ==
  /\ VgaRunning
  /\ \E addr \in WindowAddrs, value \in WriteValues :
       /\ \E r \in {neo_mem_write_A0000(Vga, addr, value)} :
            /\ vga_ram' = r.ram
            /\ vga_latch' = r.latch
       /\ op' = <<"write", addr, value>>
  /\ ret' = 0
  /\ nvga' = nvga + 1
  /\ UNCHANGED <<vga_reg_data, vga_seq_data,
                 picVars, cpuVars, thrVars, diskVars, decVars, laterVars>>

NextVga == MemRead \/ MemWrite

SpecVga == InitVga /\ [][NextVga]_vars

(***************************************************************************)
(* Properties of the plane engine                                          *)
(***************************************************************************)
\* this step is a write to the window; its offset and the CPU's byte
WriteStep == op'[1] = "write" /\ nvga' = nvga + 1
WriteOff == op'[2] - WindowBase
WriteValue == op'[3]

\* the byte whose bit i is b[i]
ByteOf(b) ==
  b[0] + 2 * b[1] + 4 * b[2] + 8 * b[3] + 16 * b[4] + 32 * b[5] + 64 * b[6] + 128 * b[7]

\* bit i of ror8(x, n): bit (i + n) mod 8 of x
RorBit(x, n, i) == Bit(x, (i + (n % 8)) % 8)

\* one bit of the ALU: copy, AND, OR, XOR of the source bit s with the latch bit l
LogicBit(lop, s, l) ==
  CASE lop = 0 -> s
    [] lop = 1 -> s * l
    [] lop = 2 -> IF s + l > 0 THEN 1 ELSE 0
    [] lop = 3 -> (s + l) % 2

\* the byte a plane receives from the ALU and the bit mask: per bit, the logic
\* op of the source byte src with the latch byte where the mask has 1, the latch
\* bit where it has 0
AluByte(lop, bitmask, src, latchByte) ==
  ByteOf([i \in 0..7 |->
            IF Bit(bitmask, i) = 1
            THEN LogicBit(lop, Bit(src, i), Bit(latchByte, i))
            ELSE Bit(latchByte, i)])

\* plane p is write-enabled in the map mask
Enabled(p) == Bit(vga_seq_data[2] % 16, p) = 1

\* C17 as stated: in write mode 0 with enable set/reset = 0xF, each enabled
\* plane p receives, per bit, logic_op(S_p, latch_p) where the bit mask has 1
\* and latch_p where it has 0, with S_p = 0xFF if bit p of set/reset is 1 and
\* 0x00 otherwise.
C17_Original ==
  [][(WriteStep /\ vga_reg_data[5] % 4 = 0 /\ vga_reg_data[1] % 16 = 15) =>
       \A p \in 0..3 :
         Enabled(p) =>
           vga_ram'[WriteOff][p + 1] =
             AluByte((vga_reg_data[3] \div 8) % 4, vga_reg_data[8],
                     IF Bit(vga_reg_data[0], p) = 1 THEN 255 ELSE 0,
                     vga_latch[p + 1])]_vars

\* C18: after a read of window address A, a write of any value to A in write
\* mode 1 with all four planes enabled leaves the four plane bytes at A as they
\* were, whatever rot, enable set/reset, set/reset, logic op and bit mask are.
C18_ModeOneRoundTrip ==
  [][(WriteStep /\ vga_reg_data[5] % 4 = 1 /\ vga_seq_data[2] % 16 = 15
        /\ op = <<"read", op'[2]>>) =>
       vga_ram'[WriteOff] = vga_ram[WriteOff]]_vars

\* the last byte of the window was read and then written with 0xA5 in write
\* mode 1: the planes still hold what the latch took from them
C18_Witness ==
  /\ op = <<"write", WindowBase + 65535, 165>>
  /\ nvga = 2
  /\ vga_reg_data[5] % 4 = 1 /\ vga_seq_data[2] % 16 = 15
  /\ vga_latch = vga_ram[65535]
  /\ vga_ram[65535] = [p \in 1..4 |-> Vram0(65535, p - 1)]
  /\ \A p \in 1..4 : vga_ram[65535][p] # 165

\* C19 as stated: in write mode 3, with mask = bit mask & ror8(v, rot), every
\* enabled plane p receives per bit i the set/reset bit of plane p where mask
\* bit i is 1 and the latch bit where it is 0.
C19_Original ==
  [][(WriteStep /\ vga_reg_data[5] % 4 = 3) =>
       \A p \in 0..3 :
         Enabled(p) =>
           vga_ram'[WriteOff][p + 1] =
             ByteOf([i \in 0..7 |->
                       IF Bit(vga_reg_data[8], i) = 1
                            /\ RorBit(WriteValue, vga_reg_data[3] % 8, i) = 1
                       THEN Bit(vga_reg_data[0], p)
                       ELSE Bit(vga_latch[p + 1], i)])]_vars

\* C20: in write mode 2 each enabled plane p receives the lane 0xFF if bit p of
\* v is 1 and 0x00 otherwise, passed through the ALU and the bit mask against
\* the latch; with logic op copy, bit mask 0xFF and all planes enabled plane p
\* holds exactly that lane.
C20_ModeTwo ==
  [][(WriteStep /\ vga_reg_data[5] % 4 = 2) =>
       /\ \A p \in 0..3 :
            Enabled(p) =>
              vga_ram'[WriteOff][p + 1] =
                AluByte((vga_reg_data[3] \div 8) % 4, vga_reg_data[8],
                        IF Bit(WriteValue, p) = 1 THEN 255 ELSE 0,
                        vga_latch[p + 1])
       /\ ((vga_reg_data[3] \div 8) % 4 = 0 /\ vga_reg_data[8] = 255
             /\ vga_seq_data[2] % 16 = 15) =>
            vga_ram'[WriteOff] =
              [p \in 1..4 |-> IF Bit(WriteValue % 16, p - 1) = 1 THEN 255 ELSE 0]]_vars

\* 0x01 was written to 0xA0000 in write mode 2 with logic op copy, bit mask
\* 0xFF and all planes enabled: plane 0 holds 0xFF, the others 0x00
C20_Witness ==
  /\ op = <<"write", WindowBase, 1>>
  /\ nvga = 1
  /\ vga_reg_data[5] % 4 = 2 /\ (vga_reg_data[3] \div 8) % 4 = 0
  /\ vga_reg_data[8] = 255 /\ vga_seq_data[2] % 16 = 15
  /\ vga_ram[0] = <<255, 0, 0, 0>>

\* this step is a read of the window, whether or not it returned; its offset
ReadStep == op'[1] \in {"read", "unreachable"} /\ nvga' = nvga + 1
ReadOff == op'[2] - WindowBase

\* the colour-compare byte of four plane bytes: bit i is 1 iff every plane p
\* with bit p of dontcare set has bit i equal to bit p of compare
CompareByte(planes, compare, dontcare) ==
  ByteOf([i \in 0..7 |->
            IF \A p \in 0..3 :
                 Bit(dontcare, p) = 1 => Bit(planes[p + 1], i) = Bit(compare, p)
            THEN 1 ELSE 0])

\* C21 as stated: with read mode 1 a read of the window completes normally and
\* returns the byte whose bit i is 1 iff every plane enabled in Color Don't
\* Care has bit i equal to its bit of Color Compare.
C21_Original ==
  [][(ReadStep /\ (vga_reg_data[5] \div 8) % 2 = 1) =>
       /\ op'[1] = "read"
       /\ ret' = CompareByte(vga_ram[ReadOff], vga_reg_data[2] % 16,
                             vga_reg_data[7] % 16)]_vars

(***************************************************************************)
(* The video ports: graphics controller, sequencer, DAC and attribute      *)
(* controller (ports 3B0h-3DFh)                                            *)
(***************************************************************************)
Port3BA == 954
Port3C0 == 960
Port3C2 == 962
Port3C4 == 964
Port3C5 == 965
Port3C6 == 966
Port3C7 == 967
Port3C8 == 968
Port3C9 == 969
Port3CE == 974
Port3CF == 975
Port3DA == 986

\* the ports kept in portram that are accessed
PortRamPorts == {Port3C2, Port3DA}

\* a | b on uint32_t, byte by byte
Or32(a, b) ==
  Or8(a % 256, b % 256)
    + 256 * Or8((a \div 256) % 256, (b \div 256) % 256)
    + 65536 * Or8((a \div 65536) % 256, (b \div 65536) % 256)
    + 16777216 * Or8((a \div 16777216) % 256, (b \div 16777216) % 256)

\* e & 0x00FFFF, e & 0xFF00FF, e & 0xFFFF00 on uint32_t
And00FFFF(e) == e % 65536
AndFF00FF(e) == ((e \div 65536) % 256) * 65536 + (e % 256)
AndFFFF00(e) == ((e \div 256) % 65536) * 256

\* the state behind the ports as one record
Ports ==
  [seq_addr |-> vga_seq_addr, sq |-> vga_seq_data, reg_addr |-> vga_reg_addr,
   gr |-> vga_reg_data, entry |-> dac_entry, state |-> dac_state,
   mode_write |-> dac_mode_write, mode_read |-> dac_mode_read,
   pal_read |-> dac_pal_read, pal_write |-> dac_pal_write, mask_reg |-> dac_mask_reg,
   ega_dac |-> ega_dac, ega_reg |-> ega_reg, flipflop |-> flipflop_3c0,
   addr |-> addr_3c0, portram |-> portram, mda_status |-> mda_status]

\* static uint8_t _dac_data_read(void): <<the state after, the byte returned>>
dac_data_read(pt) ==
  LET e == pt.entry[pt.mode_read]
  IN CASE pt.pal_read = 0 ->
            <<[pt EXCEPT !.pal_read = 1], (e \div 262144) % 64>>
       [] pt.pal_read = 1 ->
            <<[pt EXCEPT !.pal_read = 2], (e \div 1024) % 64>>
       [] pt.pal_read = 2 ->
            <<[pt EXCEPT !.pal_read = 0, !.mode_read = (pt.mode_read + 1) % 256],
              (e \div 4) % 64>>
       [] OTHER -> <<pt, 0>>

\* _dac_data_write with the green component shifted by 8 instead of 10
dac_data_write_greenByte(pt, val) ==
  LET k == pt.mode_write
      e == pt.entry[k]
  IN CASE pt.pal_write = 0 ->
            [pt EXCEPT !.entry[k] = Or32(And00FFFF(e), val * 262144), !.pal_write = 1]
       [] pt.pal_write = 1 ->
            [pt EXCEPT !.entry[k] = Or32(AndFF00FF(e), val * 256), !.pal_write = 2]
       [] pt.pal_write = 2 ->
            [pt EXCEPT !.entry[k] = Or32(AndFFFF00(e), val * 4), !.pal_write = 0,
                       !.mode_write = (k + 1) % 256]
       [] OTHER -> pt

\* static void _dac_data_write(const uint8_t val): val is shifted into place
\* unmasked; ++_dac_mode_write wraps at 8 bits
dac_data_write(pt, val) ==
  LET k == pt.mode_write
      e == pt.entry[k]
  IN CASE pt.pal_write = 0 ->
            [pt EXCEPT !.entry[k] = Or32(And00FFFF(e), val * 262144), !.pal_write = 1]
       [] pt.pal_write = 1 ->
            [pt EXCEPT !.entry[k] = Or32(AndFF00FF(e), val * 1024), !.pal_write = 2]
       [] pt.pal_write = 2 ->
            [pt EXCEPT !.entry[k] = Or32(AndFFFF00(e), val * 4), !.pal_write = 0,
                       !.mode_write = (k + 1) % 256]
       [] OTHER -> pt

\* static uint32_t _ega_attr_to_rgb(const uint8_t value): ..rgbRGB to 0xRRGGBB
ega_attr_to_rgb(value) ==
  LET r == 2 * Bit(value, 5) + Bit(value, 2)
      g == 2 * Bit(value, 4) + Bit(value, 1)
      b == 2 * Bit(value, 3) + Bit(value, 0)
      lut == <<0, 170, 85, 255>>
  IN lut[r + 1] * 65536 + lut[g + 1] * 256 + lut[b + 1]

\* _3c0_flipflop ^= 1
Toggle(ff) == IF ff % 2 = 0 THEN ff + 1 ELSE ff - 1

\* static void _write_port_3c0(const uint8_t value)
write_port_3c0(pt, value) ==
  IF pt.flipflop % 2 = 1
  THEN IF pt.addr < 16
       THEN [pt EXCEPT !.ega_dac[pt.addr] = ega_attr_to_rgb(value),
                       !.flipflop = Toggle(pt.flipflop)]
       ELSE [pt EXCEPT !.ega_reg[pt.addr] = value,
                       !.flipflop = Toggle(pt.flipflop)]
  ELSE [pt EXCEPT !.addr = value % 32, !.flipflop = Toggle(pt.flipflop)]

\* static uint8_t ega_port_read(uint16_t portnum): <<the state after, the byte>>
ega_port_read(pt, portnum) ==
  CASE portnum = Port3C0 -> <<pt, pt.addr>>
    [] portnum = Port3C4 -> <<pt, pt.seq_addr>>
    [] portnum = Port3C5 -> <<pt, pt.sq[pt.seq_addr]>>
    [] portnum = Port3C6 -> <<pt, pt.mask_reg>>
    [] portnum = Port3C7 -> <<pt, pt.state % 4>>
    [] portnum = Port3C8 -> <<pt, pt.mode_write>>
    [] portnum = Port3C9 -> dac_data_read(pt)
    [] portnum = Port3CE -> <<pt, pt.reg_addr>>
    [] portnum = Port3CF -> <<pt, pt.gr[pt.reg_addr]>>
    [] OTHER -> <<pt, pt.portram[portnum]>>

\* static void ega_port_write(uint16_t portnum, uint8_t value)
ega_port_write(pt, portnum, value) ==
  CASE portnum = Port3C0 -> write_port_3c0(pt, value)
    [] portnum = Port3C4 -> [pt EXCEPT !.seq_addr = value]
    [] portnum = Port3C5 -> [pt EXCEPT !.sq[pt.seq_addr] = value]
    [] portnum = Port3C6 -> [pt EXCEPT !.mask_reg = value]
    [] portnum = Port3C7 ->
         [pt EXCEPT !.mode_read = value, !.pal_read = 0, !.state = 0]
    [] portnum = Port3C8 ->
         [pt EXCEPT !.mode_write = value, !.pal_write = 0, !.state = 3]
    [] portnum = Port3C9 -> dac_data_write(pt, value)
    [] portnum = Port3CE -> [pt EXCEPT !.reg_addr = value]
    [] portnum = Port3CF -> [pt EXCEPT !.gr[pt.reg_addr] = value]
    [] OTHER -> [pt EXCEPT !.portram[portnum] = value]

\* static uint8_t mda_port_read(uint16_t portnum) for the status port 3BAh,
\* timing the byte vga_timing_get_3da() returns
mda_port_read(pt, portnum, timing) ==
  IF portnum = Port3BA
  THEN <<[pt EXCEPT !.flipflop = 0, !.mda_status = timing % 2],
         Or8(timing % 2, 240)>>
  ELSE <<pt, 0>>

\* cga_port_read whose read of 3DAh leaves the flip-flop alone
cga_port_read_keepsPhase(pt, portnum, timing) ==
  IF portnum = Port3DA
  THEN <<[pt EXCEPT !.portram[Port3DA] = timing], timing>>
  ELSE <<pt, pt.portram[portnum]>>

\* static uint8_t cga_port_read(uint16_t portnum) for the status port 3DAh and
\* the ports kept in portram
cga_port_read(pt, portnum, timing) ==
  IF portnum = Port3DA
  THEN <<[pt EXCEPT !.flipflop = 0, !.portram[Port3DA] = timing], timing>>
  ELSE <<pt, pt.portram[portnum]>>

\* the read and write redirectors neo_init installs: 3B0h-3BFh MDA, 3C0h-3CFh
\* EGA, 3D0h-3DFh CGA
port_read(pt, portnum, timing) ==
  CASE portnum \in 944..959 -> mda_port_read(pt, portnum, timing)
    [] portnum \in 960..975 -> ega_port_read(pt, portnum)
    [] portnum \in 976..991 -> cga_port_read(pt, portnum, timing)

\* the state behind the ports becomes r
SetPorts(r) ==
  /\ vga_seq_addr' = r.seq_addr /\ vga_seq_data' = r.sq
  /\ vga_reg_addr' = r.reg_addr /\ vga_reg_data' = r.gr
  /\ dac_entry' = r.entry /\ dac_state' = r.state
  /\ dac_mode_write' = r.mode_write /\ dac_mode_read' = r.mode_read
  /\ dac_pal_read' = r.pal_read /\ dac_pal_write' = r.pal_write
  /\ dac_mask_reg' = r.mask_reg
  /\ ega_dac' = r.ega_dac /\ ega_reg' = r.ega_reg
  /\ flipflop_3c0' = r.flipflop /\ addr_3c0' = r.addr
  /\ portram' = r.portram /\ mda_status' = r.mda_status

\* the bytes vga_timing_get_3da() returns: in display, in vertical retrace
TimingBytes == {0, 9}

\* the log after one more access
Logged(log, access) ==
  LET l == Append(log, access)
  IN IF Len(l) > 4 THEN SubSeq(l, Len(l) - 3, Len(l)) ELSE l

\* the guest writes value to one of the EGA ports
PortOut(ports, values, bound) ==
  /\ nports < bound
  /\ op[1] # "unreachable"
  /\ \E portnum \in ports, value \in values :
       /\ \E r \in {ega_port_write(Ports, portnum, value)} : SetPorts(r)
       /\ op' = <<"out", portnum, value>>
       /\ portlog' = Logged(portlog, <<"out", portnum, value>>)
  /\ ret' = 0
  /\ nports' = nports + 1
  /\ UNCHANGED <<vga_ram, vga_latch, nvga, picVars, cpuVars, thrVars, diskVars, decVars,
                 runVars, geoVars>>

\* the guest reads one of the video ports
PortIn(ports, bound) ==
  /\ nports < bound
  /\ op[1] # "unreachable"
  /\ \E portnum \in ports, timing \in TimingBytes :
       /\ \E r \in {port_read(Ports, portnum, timing)} :
            /\ SetPorts(r[1])
            /\ ret' = r[2]
       /\ op' = <<"in", portnum>>
       /\ portlog' = Logged(portlog, <<"in", portnum, 0>>)
  /\ nports' = nports + 1
  /\ UNCHANGED <<vga_ram, vga_latch, nvga, picVars, cpuVars, thrVars, diskVars, decVars,
                 runVars, geoVars>>

\* the ports after construction: every static is zero
InitPorts ==
  /\ vga_seq_addr = 0 /\ vga_reg_addr = 0
  /\ vga_seq_data = [i \in 0..4 |-> 0] /\ vga_reg_data = [i \in 0..8 |-> 0]
  /\ dac_entry = [i \in 0..255 |-> 0] /\ dac_state = 0
  /\ dac_mode_write = 0 /\ dac_mode_read = 0
  /\ dac_pal_read = 0 /\ dac_pal_write = 0 /\ dac_mask_reg = 0
  /\ ega_dac = [i \in 0..15 |-> 0] /\ ega_reg = [i \in 0..31 |-> 0]
  /\ flipflop_3c0 = 0 /\ addr_3c0 = 0
  /\ portram = [p \in PortRamPorts |-> 0] /\ mda_status = 0
  /\ nports = 0 /\ portlog = <<>>
  /\ vga_ram = <<>> /\ vga_latch = <<0, 0, 0, 0>> /\ nvga = 0
  /\ op = <<"neo_init">>
  /\ ret = 0
  /\ PicAtRest
  /\ CpuAtRest
  /\ ThreadsAtRest
  /\ DiskAtRest
  /\ DecAtRest
  /\ RunAtRest
  /\ GeoAtRest

(***************************************************************************)
(* The latch under window accesses and graphics-controller port accesses   *)
(***************************************************************************)
\* port accesses per behaviour next to the window accesses
MaxGcOps == 2

\* the settings the latch is followed under: read mode 0 and read mode 1
LatchSettings == { <<0, 0, 255, 15, 0, 0>>, <<0, 0, 255, 5, 7, 1>> }

InitLatch == InitVgaFrom(LatchSettings, {0})

\* the guest selects a graphics-controller register (3CEh) or writes the
\* selected one (3CFh): index 4 is Read Map Select, index 2 Color Compare
GcOut == PortOut({Port3CE, Port3CF}, {4, 2}, MaxGcOps)

\* the guest reads the selected graphics-controller register back
GcIn == PortIn({Port3CF}, MaxGcOps)

NextLatch == MemRead \/ MemWrite \/ GcOut \/ GcIn

SpecVgaLatch == InitLatch /\ [][NextLatch]_vars

\* C22: a read of the window leaves in the latch the four plane bytes found at
\* its offset, in either read mode; in read mode 0 it returns the latched byte
\* of plane read_map_select; no other step (window write, port access) changes
\* the latch.
C22_Latch ==
  [][/\ ReadStep => (vga_latch' = vga_ram[ReadOff] /\ vga_ram' = vga_ram)
     /\ (ReadStep /\ (vga_reg_data[5] \div 8) % 2 = 0) =>
          /\ op'[1] = "read"
          /\ ret' = vga_latch'[(vga_reg_data[4] % 4) + 1]
          /\ ret' = vga_ram[ReadOff][(vga_reg_data[4] % 4) + 1]
     /\ ~ReadStep => vga_latch' = vga_latch]_vars

\* Read Map Select was set to 2 through 3CEh/3CFh, the last byte of the window
\* was written and then read in read mode 0: the latch holds the four plane
\* bytes the write left there and the read returned plane 2's
C22_Witness ==
  /\ op = <<"read", WindowBase + 65535>>
  /\ nvga = 2 /\ nports = 2
  /\ (vga_reg_data[5] \div 8) % 2 = 0 /\ vga_reg_data[4] = 2
  /\ vga_latch = vga_ram[65535]
  /\ vga_latch # [p \in 1..4 |-> Vram0(65535, p - 1)]
  /\ ret = vga_latch[3]

(***************************************************************************)
(* The DAC (ports 3C7h-3C9h)                                               *)
(***************************************************************************)
\* port accesses per behaviour of the DAC
MaxDacOps == 7

\* the palette indexes the guest selects, and the bytes it writes to 3C9h:
\* two 6-bit values and one with the top two bits set
DacIndexes == {0, 255}
DacBytes == {42, 21, 255}

\* the guest sets the write index (3C8h) or the read index (3C7h)
DacWriteIndex == PortOut({Port3C8}, DacIndexes, MaxDacOps)
DacReadIndex == PortOut({Port3C7}, {0}, MaxDacOps)

\* the guest writes a colour component to 3C9h, or reads one
DacDataOut == PortOut({Port3C9}, DacBytes, MaxDacOps)
DacDataIn == PortIn({Port3C9}, MaxDacOps)

NextDac == DacWriteIndex \/ DacReadIndex \/ DacDataOut \/ DacDataIn

SpecDac == InitPorts /\ [][NextDac]_vars

\* this step is an access to a video port
PortStep == nports' = nports + 1
DataWrite == PortStep /\ op'[1] = "out" /\ op'[2] = Port3C9
DataRead == PortStep /\ op'[1] = "in" /\ op'[2] = Port3C9

\* the last four accesses were: index k to 3C8h, then three bytes to 3C9h
\* (evaluated in the state after the fourth)
IndexThenThree(log) ==
  /\ Len(log) = 4
  /\ log[1][1] = "out" /\ log[1][2] = Port3C8
  /\ \A j \in 2..4 : log[j][1] = "out" /\ log[j][2] = Port3C9

\* C23: after index k is written to 3C8h, three successive writes R, G, B
\* (each <= 0x3F) to 3C9h leave dac_entry[k] = (R<<18)|(G<<10)|(B<<2), the
\* write index at (k+1) mod 256 and the sub-step at 0; the write and read
\* sub-steps stay in {0,1,2}, each data access moves its sub-step 0->1->2->0,
\* and an index advances only on its 2->0 transition.
C23_DacStep ==
  [][PortStep =>
       /\ (IndexThenThree(portlog')
             /\ \A j \in 2..4 : portlog'[j][3] <= 63) =>
            /\ dac_entry'[portlog'[1][3]] =
                 portlog'[2][3] * 262144 + portlog'[3][3] * 1024 + portlog'[4][3] * 4
            /\ dac_mode_write' = (portlog'[1][3] + 1) % 256
            /\ dac_pal_write' = 0
       /\ dac_pal_write' \in 0..2 /\ dac_pal_read' \in 0..2
       /\ DataWrite =>
            /\ dac_pal_write' = (dac_pal_write + 1) % 3
            /\ dac_mode_write' =
                 IF dac_pal_write = 2 THEN (dac_mode_write + 1) % 256 ELSE dac_mode_write
       /\ DataRead =>
            /\ dac_pal_read' = (dac_pal_read + 1) % 3
            /\ dac_mode_read' =
                 IF dac_pal_read = 2 THEN (dac_mode_read + 1) % 256 ELSE dac_mode_read
       /\ (dac_mode_write' # dac_mode_write /\ ~DataWrite) =>
            (op'[1] = "out" /\ op'[2] = Port3C8)
       /\ (dac_mode_read' # dac_mode_read /\ ~DataRead) =>
            (op'[1] = "out" /\ op'[2] = Port3C7)]_vars

\* three writes of 0xFF went to entry 0; then index 255 was written to 3C8h and
\* 0x2A, 0x15, 0x2A to 3C9h: entry 255 is (0x2A<<18)|(0x15<<10)|(0x2A<<2) and
\* the write index has wrapped to 0
C23_Witness ==
  /\ nports = 7
  /\ portlog = << <<"out", Port3C8, 255>>, <<"out", Port3C9, 42>>,
                  <<"out", Port3C9, 21>>, <<"out", Port3C9, 42>> >>
  /\ dac_entry[255] = 42 * 262144 + 21 * 1024 + 42 * 4
  /\ dac_entry[0] = 16777212
  /\ dac_mode_write = 0 /\ dac_pal_write = 0

\* component c (0 red, 1 green, 2 blue) of a DAC entry: bits 16-23, 8-15, 0-7
Component(e, c) ==
  CASE c = 0 -> (e \div 65536) % 256
    [] c = 1 -> (e \div 256) % 256
    [] c = 2 -> e % 256

\* C29 as stated: a write of any 8-bit value to 3C9h deposits only its low 6
\* bits, shifted left by 2, into the current component of entry[index]; the
\* other two components of that entry and all other entries are unchanged, and
\* every DAC entry is a 24-bit value.
C29_Original ==
  [][DataWrite =>
       /\ Component(dac_entry'[dac_mode_write], dac_pal_write) = (op'[3] % 64) * 4
       /\ \A c \in 0..2 \ {dac_pal_write} :
            Component(dac_entry'[dac_mode_write], c)
              = Component(dac_entry[dac_mode_write], c)
       /\ \A j \in 0..255 \ {dac_mode_write} : dac_entry'[j] = dac_entry[j]
       /\ \A j \in 0..255 : dac_entry'[j] < 16777216]_vars

(***************************************************************************)
(* The attribute controller (port 3C0h) and the status ports 3BAh, 3DAh    *)
(***************************************************************************)
\* port accesses per behaviour of the attribute controller
MaxAttrOps == 5

\* the bytes the guest writes to 3C0h: as an index they select palette entry 3,
\* register 16 and register 31
AttrBytes == {3, 48, 63}

\* the guest writes 3C0h, reads it back, or reads a status port
AttrOut == PortOut({Port3C0}, AttrBytes, MaxAttrOps)
AttrIn == PortIn({Port3C0}, MaxAttrOps)
StatusIn == PortIn({Port3BA, Port3DA}, MaxAttrOps)

NextAttr == AttrOut \/ AttrIn \/ StatusIn

SpecAttr == InitPorts /\ [][NextAttr]_vars

\* an access is a read of 3BAh or 3DAh, a write of 3C0h
IsStatusRead(access) == access[1] = "in" /\ access[2] \in {Port3BA, Port3DA}
IsAttrWrite(access) == access[1] = "out" /\ access[2] = Port3C0
AttrWrite == PortStep /\ IsAttrWrite(op')

\* the write of value is taken as an address: it latches its low 5 bits as the
\* index and changes no palette entry and no register
TakenAsAddress(value) ==
  /\ addr_3c0' = value % 32
  /\ ega_dac' = ega_dac
  /\ ega_reg' = ega_reg

\* the write of value is taken as data for the index latched before
TakenAsData(value) ==
  /\ addr_3c0' = addr_3c0
  /\ IF addr_3c0 < 16
     THEN /\ ega_dac' = [ega_dac EXCEPT ![addr_3c0] = ega_attr_to_rgb(value)]
          /\ ega_reg' = ega_reg
     ELSE /\ ega_reg' = [ega_reg EXCEPT ![addr_3c0] = value]
          /\ ega_dac' = ega_dac

\* C24: a read of 3DAh or 3BAh puts the flip-flop in the address phase whatever
\* was written to 3C0h before, so the next write to 3C0h only latches its low 5
\* bits as the index; without such a read the writes to 3C0h alternate
\* address, data, address, ...
C24_FlipFlop ==
  [][PortStep =>
       /\ IsStatusRead(op') => flipflop_3c0' = 0
       /\ (AttrWrite /\ Len(portlog) > 0 /\ IsStatusRead(portlog[Len(portlog)])) =>
            TakenAsAddress(op'[3])
       /\ (AttrWrite /\ portlog = <<>>) => TakenAsAddress(op'[3])
       /\ (AttrWrite /\ Len(portlog) > 1
             /\ IsAttrWrite(portlog[Len(portlog)])
             /\ IsStatusRead(portlog[Len(portlog) - 1])) =>
            TakenAsData(op'[3])
       /\ (AttrWrite /\ Len(portlog) > 2
             /\ IsAttrWrite(portlog[Len(portlog)])
             /\ IsAttrWrite(portlog[Len(portlog) - 1])
             /\ IsStatusRead(portlog[Len(portlog) - 2])) =>
            TakenAsAddress(op'[3])
       /\ AttrWrite =>
            /\ flipflop_3c0 \in {0, 1}
            /\ flipflop_3c0' = 1 - flipflop_3c0
            /\ IF flipflop_3c0 = 0 THEN TakenAsAddress(op'[3]) ELSE TakenAsData(op'[3])
       /\ (~AttrWrite /\ ~IsStatusRead(op')) => flipflop_3c0' = flipflop_3c0]_vars

\* one byte was written to 3C0h (leaving the flip-flop in the data phase), 3BAh
\* was read, and 0x30 was written to 3C0h: it was latched as index 16 and no
\* palette entry or register changed
C24_Witness ==
  /\ portlog = << <<"out", Port3C0, 3>>, <<"in", Port3BA, 0>>, <<"out", Port3C0, 48>> >>
  /\ addr_3c0 = 16
  /\ flipflop_3c0 = 1
  /\ \A i \in 0..15 : ega_dac[i] = 0
  /\ \A i \in 0..31 : ega_reg[i] = 0

(***************************************************************************)
\* C31 as stated: every read of 3BAh and every read of 3DAh returns a byte
\* whose bits 4..7 are all 1 and whose bit 0 is bit 0 of the byte
\* vga_timing_get_3da() returned (kept in mda_status, in portram[3DAh]), and
\* leaves the flip-flop in the address phase.
C31_Original ==
  [][(PortStep /\ IsStatusRead(op')) =>
       /\ ret' \div 16 = 15
       /\ ret' % 2 = (IF op'[2] = Port3BA THEN mda_status' ELSE portram'[Port3DA] % 2)
       /\ flipflop_3c0' = 0]_vars

\* the same for the reads of 3BAh alone
C31_Mda ==
  [][(PortStep /\ op' = <<"in", Port3BA>>) =>
       /\ ret' \div 16 = 15
       /\ ret' % 2 = mda_status'
       /\ flipflop_3c0' = 0]_vars

(* The controller's initialisation sequence (ICW1..ICW4)                   *)
(***************************************************************************)
\* writes to ports 20h and 21h per behaviour
MaxPicInitOps == 5

\* bytes written to port 20h: ICW1 single mode, ICW1 cascade mode, EOI
InitCommands == {19, 17, 32}

\* bytes written to port 21h: as ICW2 the vector base 8
InitBytes == {8, 4, 253}

\* the line raised while the controller is initialised
InitLine == 3

InitPicInit ==
  /\ i8259 = init8259
  /\ makeupticks = 0
  /\ keyboardwaitack = 0
  /\ op = <<"init8259">>
  /\ ret = 0
  /\ CpuAtRest
  /\ ThreadsAtRest
  /\ DiskAtRest
  /\ OthersAtRest

\* the guest writes byte v to port p and the write is logged
LoggedOut(p, v) ==
  /\ Len(portlog) < MaxPicInitOps
  /\ Out(p, v)
  /\ portlog' = Append(portlog, <<"out", p, v>>)
  /\ UNCHANGED <<cpuVars, thrVars, diskVars, decVars, vgaVars,
                 vga_seq_addr, vga_reg_addr, dac_entry, dac_state, dac_mode_write,
                 dac_mode_read, dac_pal_read, dac_pal_write, dac_mask_reg, ega_dac,
                 ega_reg, flipflop_3c0, addr_3c0, portram, mda_status, nports,
                 runVars, geoVars>>

InitCommandOut == \E v \in InitCommands : LoggedOut(32, v)
InitDataOut == \E v \in InitBytes : LoggedOut(33, v)

\* a device raises line 3
InitRaise ==
  \E r \in {doirq(i8259, keyboardwaitack, InitLine)} :
    /\ i8259' = r.pic
    /\ keyboardwaitack' = r.keyboardwaitack
    /\ op' = <<"doirq", InitLine>>
    /\ ret' = 0
    /\ UNCHANGED <<makeupticks, cpuVars, thrVars, diskVars, otherVars>>

NextPicInit == InitCommandOut \/ InitDataOut \/ InitRaise \/ NextIntr

SpecPICInit == InitPicInit /\ [][NextPicInit]_vars

\* the place in the log of the last ICW1 (a write to 20h with bit 4 set), 0 if
\* there is none
LastIcw1(log) ==
  LET S == {j \in 1..Len(log) : log[j][2] = 32 /\ Bit(log[j][3], 4) = 1}
  IN IF S = {} THEN 0 ELSE CHOOSE j \in S : \A k \in S : k <= j

\* the bytes written to 21h after place j of the log, in order
IsDataWrite(access) == access[2] = 33
DataSince(log, j) == SelectSeq(SubSeq(log, j + 1, Len(log)), IsDataWrite)

\* what the claim says of the state after an ICW1 w followed by the data
\* writes ds
IcwConsumed(w, ds) ==
  LET n == Len(ds)
      icw4 == IF Bit(w, 1) = 1 THEN 2 ELSE 3
  IN /\ i8259.icw[1] = w
     /\ n >= 1 => i8259.icw[2] = ds[1][3]
     /\ (Bit(w, 1) = 0 /\ n >= 2) => i8259.icw[3] = ds[2][3]
     /\ n >= icw4 => i8259.icw[4] = ds[icw4][3]
     /\ i8259.imr = IF n > icw4 THEN ds[n][3] ELSE 0

\* C25: after an ICW1 (write to 20h with bit 4 set) IMR is 0 and the writes to
\* 21h are taken in order as ICW2, ICW3 (not in single mode, ICW1 bit 1) and
\* ICW4, leaving IMR 0; every later write to 21h sets IMR; nextintr adds the
\* line to the ICW2 written.
C25_IcwSequence ==
  /\ [](LastIcw1(portlog) > 0 =>
          IcwConsumed(portlog[LastIcw1(portlog)][3],
                      DataSince(portlog, LastIcw1(portlog))))
  /\ [][(op'[1] = "nextintr" /\ Eligible(i8259) # {} /\ LastIcw1(portlog) > 0
           /\ Len(DataSince(portlog, LastIcw1(portlog))) >= 1) =>
          ret' = (DataSince(portlog, LastIcw1(portlog))[1][3]
                    + Lowest(Eligible(i8259))) % 256]_vars

\* ICW1 0x13 (single mode), ICW2 8, ICW4 253 and then the mask 4 were written;
\* line 3 was raised and nextintr returned 8 + 3
C25_Witness ==
  /\ portlog = << <<"out", 32, 19>>, <<"out", 33, 8>>, <<"out", 33, 253>>,
                  <<"out", 33, 4>> >>
  /\ i8259.icw[2] = 8 /\ i8259.icw[3] = 0 /\ i8259.icw[4] = 253
  /\ i8259.imr = 4
  /\ op = <<"nextintr">>
  /\ ret = 11
  /\ i8259.isr = 8

(***************************************************************************)
(* Inserting and ejecting disks                                            *)
(***************************************************************************)
\* disk_insert and disk_eject calls per behaviour
MaxMediaCalls == 4

\* the drive numbers used: the first floppy and the first two fixed disks
MediaDrives == {0, 128, 129}

\* the file names given: the two images of the host and a file it does not have
MediaFiles == HostFiles \cup {"missing.img"}

\* void disk_eject(uint8_t drivenum): --hdcount is made for every drive number
\* >= 0x80, inserted or not
disk_eject(dk, hdc, drivenum) ==
  [disk |-> [dk EXCEPT ![drivenum].inserted = 0, ![drivenum].diskfile = "NULL",
                       ![drivenum].handle = "NULL"],
   hdcount |-> IF drivenum >= 128 THEN (hdc - 1) % 256 ELSE hdc]

\* the machine before any disk is inserted
InitMedia ==
  /\ disk = [n \in 0..255 |-> NoDrive]
  /\ hdcount = 0
  /\ bootdrive = 0
  /\ cs = ResetCS
  /\ ip = ResetIP
  /\ files = <<>>
  /\ regs = Regs(0, 0, 0, 0, 0, 0, 0)
  /\ es = 0
  /\ cf = 0
  /\ RAM = <<>>
  /\ lastdiskah = [n \in 0..255 |-> 0]
  /\ lastdiskcf = [n \in 0..255 |-> 0]
  /\ ncalls = 0
  /\ lastret = [n \in 0..255 |-> <<>>]
  /\ op = <<"reset">>
  /\ ret = 0
  /\ PicAtRest
  /\ CpuAtRest
  /\ ThreadsAtRest
  /\ OthersAtRest

\* uint8_t disk_insert(uint8_t drivenum, char *filename) with an image file name
Insert ==
  /\ ncalls < MaxMediaCalls
  /\ \E drivenum \in MediaDrives, filename \in MediaFiles :
       /\ \E r \in {disk_insert_image(disk, hdcount, files, drivenum, filename)} :
            /\ disk' = r.disk
            /\ hdcount' = r.hdcount
            /\ files' = r.files
            /\ ret' = r.ret
       /\ op' = <<"insert", drivenum, filename>>
  /\ ncalls' = ncalls + 1
  /\ UNCHANGED <<bootdrive, cs, ip, regs, es, cf, RAM, lastdiskah, lastdiskcf, lastret,
                 picVars, cpuVars, thrVars, otherVars>>

\* void disk_eject(uint8_t drivenum)
Eject ==
  /\ ncalls < MaxMediaCalls
  /\ \E drivenum \in MediaDrives :
       /\ \E r \in {disk_eject(disk, hdcount, drivenum)} :
            /\ disk' = r.disk
            /\ hdcount' = r.hdcount
       /\ op' = <<"eject", drivenum>>
  /\ ret' = 0
  /\ ncalls' = ncalls + 1
  /\ UNCHANGED <<bootdrive, cs, ip, files, regs, es, cf, RAM, lastdiskah, lastdiskcf,
                 lastret, picVars, cpuVars, thrVars, otherVars>>

NextMedia == Insert \/ Eject

SpecDiskMedia == InitMedia /\ [][NextMedia]_vars

\* the fixed-disk drive numbers whose inserted flag is set
FixedInserted == {n \in 128..255 : disk[n].inserted # 0}

\* C26 as stated: after any sequence of disk_insert and disk_eject calls
\* hdcount is the number of drive numbers >= 0x80 whose inserted flag is set.
C26_Original == hdcount = Cardinality(FixedInserted)

(***************************************************************************)
(* The bootstrap                                                           *)
(***************************************************************************)
\* C27 as stated: with bootdrive < 255 the bootstrap sets DL = bootdrive, reads
\* cylinder 0, head 0, sector 1 of that drive into 0x07C00..0x07DFF and sets
\* CS:IP = 0x0000:0x7C00; with bootdrive = 255 it reads nothing and sets
\* CS:IP = 0xF600:0x0000.
C27_Original ==
  [][Booted =>
       IF bootdrive < 255
       THEN /\ regs'.dl = bootdrive
            /\ cs' = 0 /\ ip' = 31744
            /\ disk[bootdrive].inserted # 0
            /\ \A k \in 0..(SectorSize - 1) :
                 Peek(RAM', 31744 + k) = FileByte(files[disk[bootdrive].diskfile], k)
       ELSE /\ cs' = 62976 /\ ip' = 0
            /\ MemEq(RAM', RAM)
            /\ files' = files
            /\ regs' = regs]_vars

\* C27: with bootdrive < 255 the bootstrap sets DL = bootdrive and CS:IP =
\* 0x0000:0x7C00; when that drive holds an image, 0x07C00..0x07DFF receive its
\* first sector, and when it holds none nothing is transferred; with
\* bootdrive = 255 it reads nothing and sets CS:IP = 0xF600:0x0000.
C27_Bootstrap ==
  [][Booted =>
       IF bootdrive < 255
       THEN /\ regs'.dl = bootdrive
            /\ cs' = 0 /\ ip' = 31744
            /\ IF disk[bootdrive].inserted # 0
               THEN \A k \in 0..(SectorSize - 1) :
                      Peek(RAM', 31744 + k) = FileByte(files[disk[bootdrive].diskfile], k)
               ELSE MemEq(RAM', RAM) /\ files' = files
       ELSE /\ cs' = 62976 /\ ip' = 0
            /\ MemEq(RAM', RAM)
            /\ files' = files
            /\ regs' = regs]_vars

\* the machine was bootstrapped from the floppy: 0x07C00..0x07DFF hold the
\* first sector of its image and CS:IP is 0x0000:0x7C00
C27_Witness ==
  /\ op = <<"bootstrap">>
  /\ bootdrive = 0 /\ regs.dl = 0
  /\ cs = 0 /\ ip = 31744
  /\ \A k \in 0..(SectorSize - 1) :
       Peek(RAM, 31744 + k) = Image0("fd360.img", k)
  /\ Peek(RAM, 31744) # Ram0(31744)

(***************************************************************************)
(* CHS to LBA over the geometries disk_insert_image produces                *)
(***************************************************************************)
\* the sizes of the floppy images inserted: one for each row of the geometry
\* table, each the largest its row takes, the last a 1.44 MB image
FloppySizes == {163840, 368640, 737280, 1228800, 1474560}

\* the sizes of the fixed-disk images inserted: less than a cylinder, one
\* cylinder, two cylinders and a sector
HdSizes == {4096, 516096, 1032704}

\* the cyls, heads, sects disk_insert_image gives an image of a size
ImageGeometry(drivenum, size) ==
  IF drivenum >= 128
  THEN [cyls |-> size \div (63 * 16 * 512), sects |-> 63, heads |-> 16]
  ELSE FloppyGeometry(size)

\* the C/H/S a geometry has: C in [0, cyls), H in [0, heads), S in [1, sects]
ChsOf(g) == (0..(g.cyls - 1)) \X (0..(g.heads - 1)) \X (1..g.sects)

\* an image has been inserted
InitGeometry ==
  /\ \/ \E size \in FloppySizes : geometry = ImageGeometry(0, size)
     \/ \E size \in HdSizes : geometry = ImageGeometry(128, size)
  /\ geo_chs = <<>>
  /\ geo_lba = 0
  /\ op = <<"insert">>
  /\ ret = 0
  /\ PicAtRest
  /\ CpuAtRest
  /\ ThreadsAtRest
  /\ DiskAtRest
  /\ DecAtRest
  /\ VgaAtRest
  /\ PortsAtRest
  /\ RunAtRest

\* disk_read, disk_write: the lba of a C/H/S of the drive
Convert ==
  /\ geo_chs = <<>>
  /\ \E c \in ChsOf(geometry) :
       /\ geo_chs' = c
       /\ geo_lba' = Lba(geometry, c[1], c[3], c[2])
  /\ op' = <<"lba">>
  /\ UNCHANGED <<geometry, ret, picVars, cpuVars, thrVars, diskVars, decVars, vgaVars,
                 portVars, runVars>>

SpecGeometry == InitGeometry /\ [][Convert]_vars

\* the number of sectors of a geometry
Sectors(g) == g.cyls * g.heads * g.sects

\* C30: over the C/H/S of a geometry the insert rules produce, (C,H,S) ->
\* (C*heads + H)*sects + (S-1) is injective and its image is exactly
\* [0, cyls*heads*sects).
C30_ChsLba ==
  /\ op = <<"lba">> =>
       /\ geo_lba \in 0..(Sectors(geometry) - 1)
       /\ \A c \in ChsOf(geometry) :
            Lba(geometry, c[1], c[3], c[2]) = geo_lba => c = geo_chs
  /\ op = <<"insert">> =>
       \A n \in 0..(Sectors(geometry) - 1) :
         \E c \in ChsOf(geometry) : Lba(geometry, c[1], c[3], c[2]) = n

\* the last sector of the 1.44 MB floppy, C79/H1/S18, has the last lba, 2879
C30_Witness ==
  /\ op = <<"lba">>
  /\ geometry = [cyls |-> 80, sects |-> 18, heads |-> 2]
  /\ geo_chs = <<79, 1, 18>>
  /\ geo_lba = 2879

(***************************************************************************)
(* The emulation thread and the main thread (main.c)                       *)
(***************************************************************************)
\* the samples the audio buffer takes before audiobufferfilled() reports it
\* filled
AudioBufferSize == 2

\* the -speed settings: 0 (unthrottled) and 4.77 MHz
Speeds == {0, 4770000}

\* main() has created the emulation thread and enters its loop
InitRun ==
  /\ running = 1
  /\ speed \in Speeds
  /\ mainpc = "loop"
  /\ emupc = "check"
  /\ audbuf = 0
  /\ audio_on \in BOOLEAN
  /\ scrmodechange = 0
  /\ dohardreset = 0
  /\ op = <<"main">>
  /\ ret = 0
  /\ PicAtRest
  /\ CpuAtRest
  /\ ThreadsAtRest
  /\ DiskAtRest
  /\ DecAtRest
  /\ VgaAtRest
  /\ PortsAtRest
  /\ GeoAtRest

\* what a step of these threads leaves alone
RunFrame == UNCHANGED <<speed, ret, picVars, cpuVars, thrVars, diskVars, decVars, vgaVars,
                        portVars, geoVars>>

\* the process lives: main() has not returned
Alive == mainpc # "exited"

\* main(): while (running) { handleinput(); ... }: the user does nothing, asks
\* for a hard reset, or quits
HandleInput ==
  /\ mainpc = "loop" /\ running # 0
  /\ \E ev \in {"none", "reset", "quit"} :
       /\ running' = IF ev = "quit" THEN 0 ELSE running
       /\ dohardreset' = IF ev = "reset" THEN 1 ELSE dohardreset
       /\ op' = <<"handleinput", ev>>
  /\ UNCHANGED <<mainpc, emupc, audbuf, audio_on, scrmodechange>>
  /\ RunFrame

\* main(): the loop is left and killaudio() called
MainLeave ==
  /\ mainpc = "loop" /\ running = 0
  /\ mainpc' = "shutdown"
  /\ audio_on' = FALSE
  /\ op' = <<"killaudio">>
  /\ UNCHANGED <<running, emupc, audbuf, scrmodechange, dohardreset>>
  /\ RunFrame

\* main(): the statistics are printed and main returns (or calls exit(0)),
\* which ends the process and every thread in it; thread_emu is not waited for
MainReturn ==
  /\ mainpc = "shutdown"
  /\ mainpc' = "exited"
  /\ op' = <<"exit">>
  /\ UNCHANGED <<running, emupc, audbuf, audio_on, scrmodechange, dohardreset>>
  /\ RunFrame

\* EmuThread: while (running)
EmuCheck ==
  /\ Alive /\ emupc = "check"
  /\ emupc' = IF running # 0 THEN "exec" ELSE "returned"
  /\ op' = <<"EmuThread", "while">>
  /\ UNCHANGED <<running, mainpc, audbuf, audio_on, scrmodechange, dohardreset>>
  /\ RunFrame

\* EmuThread: exec86(10000) or exec86(speed / 100) returns; the guest may have
\* changed the video mode
EmuExec ==
  /\ Alive /\ emupc = "exec"
  /\ emupc' = IF speed = 0 THEN "post" ELSE "wait"
  /\ scrmodechange' \in {scrmodechange, 1}
  /\ op' = <<"EmuThread", "exec86">>
  /\ UNCHANGED <<running, mainpc, audbuf, audio_on, dohardreset>>
  /\ RunFrame

\* EmuThread: while (!audiobufferfilled()) { timing(); tickaudio(); }
EmuWait ==
  /\ Alive /\ emupc = "wait"
  /\ IF audbuf >= AudioBufferSize
     THEN emupc' = "sleep" /\ audbuf' = audbuf
     ELSE emupc' = "wait" /\ audbuf' = audbuf + 1
  /\ op' = <<"EmuThread", "audiobufferfilled">>
  /\ UNCHANGED <<running, mainpc, audio_on, scrmodechange, dohardreset>>
  /\ RunFrame

\* EmuThread: Sleep(10)
EmuSleep ==
  /\ Alive /\ emupc = "sleep"
  /\ emupc' = "post"
  /\ op' = <<"EmuThread", "Sleep">>
  /\ UNCHANGED <<running, mainpc, audbuf, audio_on, scrmodechange, dohardreset>>
  /\ RunFrame

\* EmuThread: if (scrmodechange) doscrmodechange(); if (dohardreset) {
\* cpu_reset(); dohardreset = 0; }
EmuPost ==
  /\ Alive /\ emupc = "post"
  /\ emupc' = "check"
  /\ scrmodechange' = 0
  /\ dohardreset' = 0
  /\ op' = <<"EmuThread", "end of loop">>
  /\ UNCHANGED <<running, mainpc, audbuf, audio_on>>
  /\ RunFrame

\* the audio callback takes the samples out of the buffer
AudioCallback ==
  /\ Alive /\ audio_on /\ audbuf > 0
  /\ audbuf' = 0
  /\ op' = <<"audio callback">>
  /\ UNCHANGED <<running, mainpc, emupc, audio_on, scrmodechange, dohardreset>>
  /\ RunFrame

EmuStep == EmuCheck \/ EmuExec \/ EmuWait \/ EmuSleep \/ EmuPost
MainEnd == MainLeave \/ MainReturn

NextRun == HandleInput \/ MainEnd \/ EmuStep \/ AudioCallback

SpecRun == InitRun /\ [][NextRun]_vars

\* both threads are scheduled again and again: each takes its next step if it
\* has one; the user need not ever quit and the audio device need not ever ask
\* for samples
SpecRunFair == SpecRun /\ WF_vars(EmuStep) /\ WF_vars(MainEnd)

\* C28 as stated: once running is false the emulation thread eventually leaves
\* its loop and returns, in unthrottled and in throttled mode.
C28_Original == (running = 0) ~> (emupc = "returned")

(***************************************************************************)
(* One line raised several times before it is taken: the log keeps the     *)
(* calls of doirq, the deliveries and the EOI writes in order.             *)
(***************************************************************************)
\* logged calls per behaviour
MaxRaiseOps == 6

\* the lines raised: the timer and the keyboard
RaiseLines == {0, 1}

\* the video port state, which the controller leaves alone
PortsButLog ==
  <<vga_seq_addr, vga_reg_addr, dac_entry, dac_state, dac_mode_write, dac_mode_read,
    dac_pal_read, dac_pal_write, dac_mask_reg, ega_dac, ega_reg, flipflop_3c0,
    addr_3c0, portram, mda_status, nports>>

\* a device raises a line and the call is logged
RaiseLogged ==
  /\ Len(portlog) < MaxRaiseOps
  /\ \E n \in RaiseLines :
       /\ \E r \in {doirq(i8259, keyboardwaitack, n)} :
            /\ i8259' = r.pic
            /\ keyboardwaitack' = r.keyboardwaitack
       /\ op' = <<"doirq", n>>
       /\ portlog' = Append(portlog, <<"doirq", n, 0>>)
  /\ ret' = 0
  /\ UNCHANGED <<makeupticks, cpuVars, thrVars, diskVars, decVars, vgaVars, PortsButLog,
                 runVars, geoVars>>

\* the dispatcher takes an interrupt and the vector is logged
DispatchLogged ==
  /\ Len(portlog) < MaxRaiseOps
  /\ ifl = 1
  /\ And8(i8259.irr, Not8(i8259.imr)) # 0
  /\ \E r \in {nextintr(i8259)} :
       /\ i8259' = r.pic
       /\ ret' = r.ret
       /\ observed' = Append(observed, r.ret)
       /\ portlog' = Append(portlog, <<"dispatch", r.ret, 0>>)
  /\ ifl' = 0
  /\ op' = <<"dispatch">>
  /\ UNCHANGED <<makeupticks, keyboardwaitack, thrVars, diskVars, decVars, vgaVars,
                 PortsButLog, runVars, geoVars>>

\* the guest writes the EOI command and the write is logged
EoiLogged ==
  /\ Len(portlog) < MaxRaiseOps
  /\ Out(32, 32)
  /\ observed' = <<>>
  /\ portlog' = Append(portlog, <<"out", 32, 32>>)
  /\ UNCHANGED <<ifl, thrVars, diskVars, decVars, vgaVars, PortsButLog, runVars, geoVars>>

NextRaise == RaiseLogged \/ DispatchLogged \/ GuestSti \/ EoiLogged \/ TimerLag

SpecPICRaise == InitDispatch /\ [][NextRaise]_vars

\* the log is three calls doirq(0) and then the delivery of ICW2 + 0, with no
\* EOI written
RaisedThriceTaken ==
  /\ Len(portlog) = 4
  /\ \A j \in 1..3 : portlog[j] = <<"doirq", 0, 0>>
  /\ portlog[4] = <<"dispatch", i8259.icw[2], 0>>

\* C32 as stated: when doirq(0) was called three times before the CPU took the
\* interrupt and before any EOI, then after the one delivery of ICW2 + 0 bit 0
\* of IRR is still set.
C32_Original == RaisedThriceTaken => Bit(i8259.irr, 0) = 1

\* what the code does there: the delivery cleared bit 0 of IRR and set bit 0
\* of ISR, so nothing is pending
C32_Cleared ==
  RaisedThriceTaken => (i8259.irr = 0 /\ i8259.isr = 1 /\ observed = <<i8259.icw[2]>>)

(***************************************************************************)
(* What a write through the window leaves alone                            *)
(***************************************************************************)
\* plane p (0..3) is write enabled: bit p of the low 4 bits of SR02
PlaneEnabled(p) == Bit(vga_seq_data[2] % 16, p) = 1

\* C33: a write to window address A in any of the four write modes changes at
\* most the bytes at offset A - 0xA0000 of the planes whose write-enable bit
\* (SR02 low 4 bits) is 1: the bytes of a disabled plane, the bytes at every
\* other offset, the latch and the sequencer and graphics-controller registers
\* stay as they were.
C33_WriteFrame ==
  [][op'[1] = "write" =>
       /\ DOMAIN vga_ram' = DOMAIN vga_ram
       /\ \A a \in DOMAIN vga_ram, p \in 0..3 :
            (a # op'[2] - WindowBase \/ ~PlaneEnabled(p)) =>
              vga_ram'[a][p + 1] = vga_ram[a][p + 1]
       /\ vga_latch' = vga_latch
       /\ vga_seq_data' = vga_seq_data /\ vga_reg_data' = vga_reg_data
       /\ vga_seq_addr' = vga_seq_addr /\ vga_reg_addr' = vga_reg_addr]_vars

\* the first access was a write to the last byte of the window with planes 0
\* and 2 enabled: their bytes there changed, the bytes of planes 1 and 3 there
\* and all four bytes at offset 0 are the ones found before
C33_Witness ==
  /\ nvga = 1
  /\ op[1] = "write" /\ op[2] = WindowBase + 65535
  /\ vga_seq_data[2] = 5
  /\ vga_ram[65535][1] # Vram0(65535, 0) /\ vga_ram[65535][3] # Vram0(65535, 2)
  /\ vga_ram[65535][2] = Vram0(65535, 1) /\ vga_ram[65535][4] = Vram0(65535, 3)
  /\ \A p \in 0..3 : vga_ram[0][p + 1] = Vram0(0, p)
  /\ vga_latch = <<0, 0, 0, 0>>

(***************************************************************************)
(* What INT 13h AH=2 reports of a read that transfers fewer sectors than   *)
(* asked                                                                   *)
(***************************************************************************)
\* the sectors a read request can transfer: none with sector index 0 or with a
\* start beyond the image, else the requested ones that lie inside the image
Transferred(q) ==
  IF q.chs[3] = 0 \/ Offset(q) > disk[q.dl].filesize THEN 0 ELSE Available(q)

\* the guest memory changed by the step, apart from the status byte at 0x474,
\* lies in the first n sectors of the request's buffer
OnlyBufferChanged(q, n) ==
  \A a \in (DOMAIN RAM' \cup DOMAIN RAM) \ {1140} :
    Peek(RAM', a) # Peek(RAM, a) =>
      (a - Buffer(q, 0)) % MemSize < n * SectorSize

\* C34 as stated: AH=2 on an inserted drive returns CF=0 only if all AL
\* requested sectors were copied to guest memory; a request that starts beyond
\* the image, or one cut short, returns CF=1 with an error code in AH; and on
\* every return AL is the number of sectors transferred.
C34_Original ==
  [][Called =>
       LET q == op'[2]
           d == disk[q.dl]
       IN (q.ah = 2 /\ d.inserted # 0) =>
            /\ cf' = 0 => Transferred(q) = q.al
            /\ (q.chs[3] # 0 /\ Offset(q) > d.filesize) => (cf' = 1 /\ regs'.ah # 0)
            /\ Transferred(q) < q.al => (cf' = 1 /\ regs'.ah # 0)
            /\ regs'.al = Transferred(q)]_vars

\* what the code does: every AH=2 on an inserted drive returns CF=0 and AH=0,
\* changes guest memory only in the sectors transferred, and leaves in AL the
\* count transferred, or the count asked for when disk_read returned before
\* its loop
C34_AlwaysSuccess ==
  [][Called =>
       LET q == op'[2]
           d == disk[q.dl]
       IN (q.ah = 2 /\ d.inserted # 0) =>
            /\ cf' = 0 /\ regs'.ah = 0
            /\ OnlyBufferChanged(q, Transferred(q))
            /\ regs'.al = IF q.chs[3] = 0 \/ Offset(q) > d.filesize
                          THEN q.al ELSE Transferred(q)]_vars

(***************************************************************************)
(* Writes to the data port outside an initialisation sequence              *)
(***************************************************************************)
\* the ICW1 at place j of the log has received all its ICW bytes: ICW2 and
\* ICW4, and ICW3 between them unless ICW1 bit 1 (single mode) is set
SequenceDone(log, j) ==
  Len(DataSince(log, j)) >= (IF Bit(log[j][3], 1) = 1 THEN 2 ELSE 3)

\* no initialisation sequence is in progress: no ICW1 was ever written, or the
\* last one has received all its bytes
NoSequence(log) == LastIcw1(log) = 0 \/ SequenceDone(log, LastIcw1(log))

\* the step writes v to port 21h: it sets IMR = v, changes no ICW word, and a
\* read of port 21h then returns v
TakenAsMask(v) ==
  /\ i8259'.imr = v
  /\ i8259'.icw = i8259.icw
  /\ in8259(i8259', 33) = v

\* C35 as stated: whenever no initialisation sequence is in progress, the
\* state right after init8259 included, a write of v to port 21h sets IMR = v
\* and changes no ICW word, and a read of port 21h then returns v.
C35_Original ==
  [][(op'[1] = "out8259" /\ op'[2] = 33 /\ NoSequence(portlog)) =>
       TakenAsMask(op'[3])]_vars

\* the same once an ICW1 was written and has received all its bytes
C35_AfterSequence ==
  [][(op'[1] = "out8259" /\ op'[2] = 33 /\ LastIcw1(portlog) > 0
        /\ SequenceDone(portlog, LastIcw1(portlog))) =>
       TakenAsMask(op'[3])]_vars

\* what the code does before any ICW1: icwstep counts from 0, so the writes to
\* port 21h are stored in icw[0], icw[1], icw[2], ... and IMR stays 0
C35_BeforeIcw1 ==
  (LastIcw1(portlog) = 0 /\ Len(portlog) <= 3 /\ \A j \in 1..Len(portlog) : portlog[j][2] = 33) =>
    /\ i8259.imr = 0
    /\ \A j \in 1..Len(portlog) : i8259.icw[j - 1] = portlog[j][3]

(***************************************************************************)
(* The read-mode selector of port 20h                                      *)
(***************************************************************************)
\* bytes written to port 20h: OCW3 without a read command, OCW3 "read IRR",
\* OCW3 "read ISR", ICW1, and 0x8A, which has bit 1 set but is no OCW3
ReadModeCommands == {8, 10, 11, 19, 138}

\* the byte written to port 21h: the bits of an OCW3 "read IRR"
ReadModeBytes == {10}

ReadModeCommandOut == \E v \in ReadModeCommands : LoggedOut(32, v)
ReadModeDataOut == \E v \in ReadModeBytes : LoggedOut(33, v)

NextReadMode == ReadModeCommandOut \/ ReadModeDataOut \/ InitRaise \/ NextIntr \/ InPort

SpecPICReadMode == InitPicInit /\ [][NextReadMode]_vars

\* the access is a write to port 20h of a byte v with (v & 0x98) = 8 and bit 1
\* set
IsReadSelect(access) ==
  access[2] = 32 /\ And8(access[3], 152) = 8 /\ Bit(access[3], 1) = 1

\* such a write is in the log
SelectWritten(log) == \E j \in 1..Len(log) : IsReadSelect(log[j])

\* C36: the read-mode selector changes only on a write to port 20h with
\* (v & 0x98) = 8 and bit 1 set, and only to a non-zero value: it is 0 and a
\* read of port 20h returns IRR until the first such write, and from then on
\* it is not 0 and a read of port 20h returns ISR, whatever is written to the
\* ports afterwards.
C36_ReadMode ==
  /\ []((i8259.readmode # 0) <=> SelectWritten(portlog))
  /\ [][(op' = <<"in8259", 32>>) =>
          ret' = IF SelectWritten(portlog) THEN i8259.isr ELSE i8259.irr]_vars
  /\ [][i8259'.readmode # i8259.readmode =>
          (op'[1] = "out8259" /\ IsReadSelect(<<"out", op'[2], op'[3]>>)
             /\ i8259'.readmode # 0)]_vars

\* "read ISR" and then "read IRR" were written to port 20h, line 3 was raised
\* and taken, and the read of port 20h returned ISR = 8, not IRR = 0
C36_Witness ==
  /\ portlog = << <<"out", 32, 11>>, <<"out", 32, 10>> >>
  /\ i8259.isr = 8 /\ i8259.irr = 0
  /\ op = <<"in8259", 32>>
  /\ ret = 8

(***************************************************************************)
(* INT 13h AH=8 on drives of many sizes                                    *)
(***************************************************************************)
\* AH=8 calls per behaviour
MaxParamCalls == 2

\* the sizes of the fixed-disk images inserted: no whole cylinder, 1, 255, 256,
\* 257 and 1024 cylinders of 16 * 63 sectors
ParamHdSizes == {4096, 516096, 131604480, 132120576, 132636672, 528482304}

\* the drive table and the files after disk_insert_image(0, "fd360.img") and
\* disk_insert_image(0x80, "hd.img") when the files have sizes fs and hs
InsertedSized(fs, hs) ==
  LET gf == ImageGeometry(0, fs)
      gh == ImageGeometry(128, hs)
  IN [disk |-> [Inserted.disk EXCEPT
                  ![0].filesize = fs, ![0].cyls = gf.cyls, ![0].sects = gf.sects,
                  ![0].heads = gf.heads,
                  ![128].filesize = hs, ![128].cyls = gh.cyls, ![128].sects = gh.sects,
                  ![128].heads = gh.heads],
      files |-> [Inserted.files EXCEPT !["fd360.img"].size = fs, !["hd.img"].size = hs]]

InitParams ==
  /\ \E fs \in FloppySizes, hs \in ParamHdSizes :
       /\ disk = InsertedSized(fs, hs).disk
       /\ files = InsertedSized(fs, hs).files
  /\ hdcount = Inserted.hdcount
  /\ bootdrive = 0
  /\ cs = ResetCS
  /\ ip = ResetIP
  /\ regs = Regs(0, 0, 0, 0, 0, 0, 0)
  /\ es = 0
  /\ cf = 0
  /\ RAM = <<>>
  /\ lastdiskah = [n \in 0..255 |-> 0]
  /\ lastdiskcf = [n \in 0..255 |-> 0]
  /\ ncalls = 0
  /\ lastret = [n \in 0..255 |-> <<>>]
  /\ op = <<"reset">>
  /\ ret = 0
  /\ PicAtRest
  /\ CpuAtRest
  /\ ThreadsAtRest
  /\ OthersAtRest

\* the AH=8 calls: drives 0 and 0x80 hold an image, drives 1 and 0x81 do not;
\* the other registers hold what the guest left in them
ParamRequests ==
  [ah : {8}, al : {1, 7}, chs : {FirstSector, LastSector}, dl : {0, 1, 128, 129},
   es : {RamSeg}, bx : {0, 4660}]

Int13Params ==
  /\ ncalls < MaxParamCalls
  /\ \E req \in ParamRequests : Int13(req, NoLimit)

SpecDriveParams == InitParams /\ [][Int13Params]_vars

\* the cylinder number the AH=2 convention reads from CH and CL
CylinderOf(r) == r.ch + (r.cl \div 64) * 256

\* the registers returned are those of the geometry of drive d
RoundTrips(r, d) ==
  /\ CylinderOf(r) = d.cyls - 1
  /\ r.cl % 64 = d.sects
  /\ r.dh = d.heads - 1

\* C37 as stated: for an inserted drive AH=8 returns CF=0, AH=0 and CH, CL, DH
\* with CH + (CL>>6)*256 = cyls-1, CL & 63 = sects, DH = heads-1, for every
\* geometry the insert rules produce; for a drive that is not inserted it
\* returns CF=1, AH=0xAA and changes no other register.
C37_Original ==
  [][Called =>
       LET q == op'[2]
           d == disk[q.dl]
       IN q.ah = 8 =>
            IF d.inserted # 0
            THEN cf' = 0 /\ regs'.ah = 0 /\ RoundTrips(regs', d)
            ELSE /\ cf' = 1
                 /\ regs' = [Machine(q).regs EXCEPT !.ah = 170]]_vars

\* the same for the geometries with 1 <= cyls < 1024 and cyls no multiple of
\* 256, and for the drives that are not inserted
C37_OtherSizes ==
  [][Called =>
       LET q == op'[2]
           d == disk[q.dl]
       IN q.ah = 8 =>
            IF d.inserted # 0
            THEN /\ cf' = 0 /\ regs'.ah = 0
                 /\ (d.cyls >= 1 /\ d.cyls < 1024 /\ d.cyls % 256 # 0) =>
                      RoundTrips(regs', d)
                 /\ regs'.cl % 64 = d.sects /\ regs'.dh = d.heads - 1
            ELSE /\ cf' = 1
                 /\ regs' = [Machine(q).regs EXCEPT !.ah = 170]]_vars

\* what AH=8 returns for the images of 0, 256 and 1024 cylinders: CH = 0xFF for
\* all three, and cylinder numbers 255, 511 and 255 where cyls - 1 is -1, 255
\* and 1023
C37_Returned ==
  (op[1] = "int13" /\ op[2].dl = 128 /\ disk[128].cyls \in {0, 256, 1024}) =>
    /\ regs.ch = 255
    /\ CylinderOf(regs) = (CASE disk[128].cyls = 0 -> 255
                             [] disk[128].cyls = 256 -> 511
                             [] disk[128].cyls = 1024 -> 255)

====
